---- MODULE Spec2Model ----
(***************************************************************************)
(* World Cup ETL, transform stage (src/transform.py, src/config.py).       *)
(*                                                                         *)
(* Cell values are Python objects, encoded as tagged tuples so that values *)
(* of different Python types can be compared (in Python "1998" != 1998):   *)
(*   PyStr(s)  a str, s being the sequence of its characters                 *)
(*   PyInt(n)  an int                                                        *)
(*   PyTs(d)   a pandas Timestamp at midnight, d = year*10000+month*100+day  *)
(*   None, NaN, NaT  the missing markers                                   *)
(* A table (DataFrame) is a sequence of rows, a row a record of cells.     *)
(***************************************************************************)
EXTENDS Integers, Sequences, FiniteSets, TLC

PyStr(s) == <<"str", s>>
PyInt(n) == <<"int", n>>
PyTs(d) == <<"ts", d>>
None == <<"None">>
NaN == <<"nan">>
NaT == <<"NaT">>

IsStr(v) == Len(v) = 2 /\ v[1] = "str"
IsInt(v) == Len(v) = 2 /\ v[1] = "int"
IsTs(v) == Len(v) = 2 /\ v[1] = "ts"

\* pd.isna / pd.notna on a scalar
isna(v) == v \in {None, NaN, NaT}
notna(v) == ~isna(v)

Min(S) == CHOOSE x \in S : \A y \in S : x <= y
Max(S) == CHOOSE x \in S : \A y \in S : x >= y

(***************************************************************************)
(* Python str methods, on sequences of characters                          *)
(***************************************************************************)
UPPER == <<"A","B","C","D","E","F","G","H","I","J","K","L","M","N","O","P","Q","R","S","T","U","V","W","X","Y","Z","Á","Ã","É","Í","Ô">>
LOWER == <<"a","b","c","d","e","f","g","h","i","j","k","l","m","n","o","p","q","r","s","t","u","v","w","x","y","z","á","ã","é","í","ô">>
DIGITS == <<"0","1","2","3","4","5","6","7","8","9">>

IsUpperCh(c) == \E i \in 1..Len(UPPER) : UPPER[i] = c
IsLowerCh(c) == \E i \in 1..Len(LOWER) : LOWER[i] = c
IsCasedCh(c) == IsUpperCh(c) \/ IsLowerCh(c)
IsDigitCh(c) == \E i \in 1..Len(DIGITS) : DIGITS[i] = c
IsSpaceCh(c) == c \in {" ", "\t", "\n", "\r"}
lower_ch(c) == IF IsUpperCh(c) THEN LOWER[CHOOSE i \in 1..Len(UPPER) : UPPER[i] = c] ELSE c
upper_ch(c) == IF IsLowerCh(c) THEN UPPER[CHOOSE i \in 1..Len(LOWER) : LOWER[i] = c] ELSE c
digit_val(c) == (CHOOSE i \in 1..Len(DIGITS) : DIGITS[i] = c) - 1

\* s.lower()
lower(s) == [i \in 1..Len(s) |-> lower_ch(s[i])]

\* s.title(): a cased character is upper-cased when the character before it
\* is not cased, lower-cased otherwise
title(s) == [i \in 1..Len(s) |->
               IF i > 1 /\ IsCasedCh(s[i-1]) THEN lower_ch(s[i]) ELSE upper_ch(s[i])]

\* s.strip()
strip(s) ==
  LET keep == {i \in 1..Len(s) : ~IsSpaceCh(s[i])}
  IN IF keep = {} THEN <<>> ELSE SubSeq(s, Min(keep), Max(keep))

\* sub in s
contains(s, sub) ==
  \E i \in 0..(Len(s) - Len(sub)) : SubSeq(s, i + 1, i + Len(sub)) = sub

\* s.replace('"', '')
replace_quote(s) == SelectSeq(s, LAMBDA c : c # "\"")

\* s.isdigit()
isdigit(s) == Len(s) > 0 /\ \A i \in 1..Len(s) : IsDigitCh(s[i])

\* decimal digits of a natural number
RECURSIVE nat_digits(_)
nat_digits(n) == IF n < 10 THEN <<DIGITS[n + 1]>>
                 ELSE nat_digits(n \div 10) \o <<DIGITS[(n % 10) + 1]>>

\* value of a string of decimal digits
RECURSIVE digits_val(_)
digits_val(s) == IF Len(s) = 0 THEN 0
                 ELSE 10 * digits_val(SubSeq(s, 1, Len(s) - 1)) + digit_val(s[Len(s)])

\* str(int)
str_int(n) == IF n < 0 THEN <<"-">> \o nat_digits(0 - n) ELSE nat_digits(n)

pad2(n) == IF n < 10 THEN <<"0">> \o nat_digits(n) ELSE nat_digits(n)

\* str(v) of a cell value
str(v) ==
  IF IsStr(v) THEN v[2]
  ELSE IF IsInt(v) THEN str_int(v[2])
  ELSE IF IsTs(v) THEN nat_digits(v[2] \div 10000) \o <<"-">> \o pad2((v[2] \div 100) % 100)
                       \o <<"-">> \o pad2(v[2] % 100) \o <<" ","0","0",":","0","0",":","0","0">>
  ELSE IF v = None THEN <<"N","o","n","e">>
  ELSE IF v = NaN THEN <<"n","a","n">>
  ELSE <<"N","a","T">>

\* int(v) succeeds: an int, or a str holding an optionally signed decimal
\* number with optional surrounding blanks; otherwise ValueError / TypeError
int_digits(s) == IF Len(s) > 0 /\ s[1] \in {"-", "+"} THEN Tail(s) ELSE s
int_ok(v) == IsInt(v) \/ (IsStr(v) /\ isdigit(int_digits(strip(v[2]))))
int_val(v) ==
  IF IsInt(v) THEN v[2]
  ELSE LET t == strip(v[2])
       IN IF t[1] = "-" THEN 0 - digits_val(Tail(t)) ELSE digits_val(int_digits(t))

\* re.sub(r'\s*\(.*\)', '', s): the match starts at the blanks before the
\* first "(" and, being greedy, ends at the last ")" after it
sub_paren_greedy(s) ==
  LET opens == {i \in 1..Len(s) : s[i] = "("}
  IN IF opens = {} THEN s
     ELSE LET o == Min(opens)
              closes == {j \in (o + 1)..Len(s) : s[j] = ")"}
          IN IF closes = {} THEN s
             ELSE LET c == Max(closes)
                      b == Min({k \in 1..o : \A j \in k..(o - 1) : IsSpaceCh(s[j])})
                  IN SubSeq(s, 1, b - 1) \o SubSeq(s, c + 1, Len(s))

\* re.sub(r'\([^)]*\)', '', s): every "(" up to the first ")" after it
RECURSIVE sub_paren_each(_)
sub_paren_each(s) ==
  LET opens == {i \in 1..Len(s) : s[i] = "("}
  IN IF opens = {} THEN s
     ELSE LET o == Min(opens)
              closes == {j \in (o + 1)..Len(s) : s[j] = ")"}
          IN IF closes = {} THEN s
             ELSE SubSeq(s, 1, o - 1) \o sub_paren_each(SubSeq(s, Min(closes) + 1, Len(s)))

\* dict lookups on a mapping given as a set of <<key, value>> pairs
InMap(m, k) == \E p \in m : p[1] = k
Lookup(m, k) == (CHOOSE p \in m : p[1] = k)[2]

s_Unknown == <<"U","n","k","n","o","w","n">>
s_Cote_dIvoire == <<"C","o","t","e"," ","d","'","I","v","o","i","r","e">>
s_Trinidad_and_Tobago == <<"T","r","i","n","i","d","a","d"," ","a","n","d"," ","T","o","b","a","g","o">>
s_C_ == <<"C","_">>
s_Ivoire == <<"I","v","o","i","r","e">>
s_Trinidad == <<"T","r","i","n","i","d","a","d">>
s_Tobago == <<"T","o","b","a","g","o">>
s_CTe == <<"C","T","e">>
s_Cote_circ == <<"C","ô","t","e">>
s_Cote == <<"C","o","t","e">>
s_group == <<"g","r","o","u","p">>
s_poule == <<"p","o","u","l","e">>
s_Group_Stage == <<"G","r","o","u","p"," ","S","t","a","g","e">>
s_preliminary == <<"p","r","e","l","i","m","i","n","a","r","y">>
s_draw == <<"d","r","a","w">>
s_home_team == <<"h","o","m","e","_","t","e","a","m">>
s_away_team == <<"a","w","a","y","_","t","e","a","m">>
s_Croatia == <<"C","r","o","a","t","i","a">>
s_Morocco == <<"M","o","r","o","c","c","o">>

\* config.TEAMS_MAPPING: alias -> canonical team name, as pairs <<key, value>>
TEAMS_MAPPING ==
  { <<<<"W","e","s","t"," ","G","e","r","m","a","n","y">>,
      <<"G","e","r","m","a","n","y">>>>,
    <<<<"F","R"," ","G","e","r","m","a","n","y">>,
      <<"G","e","r","m","a","n","y">>>>,
    <<<<"G","e","r","m","a","n"," ","D","R">>,
      <<"E","a","s","t"," ","G","e","r","m","a","n","y">>>>,
    <<<<"G","e","r","m","a","n","y"," ","F","R">>,
      <<"G","e","r","m","a","n","y">>>>,
    <<<<"F","R","G">>,
      <<"G","e","r","m","a","n","y">>>>,
    <<<<"F","r","g">>,
      <<"G","e","r","m","a","n","y">>>>,
    <<<<"S","o","v","i","e","t"," ","U","n","i","o","n">>,
      <<"R","u","s","s","i","a">>>>,
    <<<<"U","S","S","R">>,
      <<"R","u","s","s","i","a">>>>,
    <<<<"Y","u","g","o","s","l","a","v","i","a">>,
      <<"S","e","r","b","i","a">>>>,
    <<<<"C","z","e","c","h","o","s","l","o","v","a","k","i","a">>,
      <<"C","z","e","c","h"," ","R","e","p","u","b","l","i","c">>>>,
    <<<<"K","o","r","e","a"," ","R","e","p","u","b","l","i","c">>,
      <<"S","o","u","t","h"," ","K","o","r","e","a">>>>,
    <<<<"K","o","r","e","a"," ","D","P","R">>,
      <<"N","o","r","t","h"," ","K","o","r","e","a">>>>,
    <<<<"S","o","u","t","h"," ","K","o","r","e","a">>,
      <<"S","o","u","t","h"," ","K","o","r","e","a">>>>,
    <<<<"U","n","i","t","e","d"," ","S","t","a","t","e","s">>,
      <<"U","S","A">>>>,
    <<<<"U","S">>,
      <<"U","S","A">>>>,
    <<<<"U","s","a">>,
      <<"U","S","A">>>>,
    <<<<"I","v","o","r","y"," ","C","o","a","s","t">>,
      <<"C","o","t","e"," ","d","'","I","v","o","i","r","e">>>>,
    <<<<"C","ô","t","e"," ","d","'","I","v","o","i","r","e">>,
      <<"C","o","t","e"," ","d","'","I","v","o","i","r","e">>>>,
    <<<<"B","o","s","n","i","a","-","H","e","r","z","e","g","o","v","i","n","a">>,
      <<"B","o","s","n","i","a"," ","a","n","d"," ","H","e","r","z","e","g","o","v","i","n","a">>>>,
    <<<<"I","r","a","n">>,
      <<"I","r","a","n">>>>,
    <<<<"I","R"," ","I","r","a","n">>,
      <<"I","r","a","n">>>>,
    <<<<"I","r","i","s","h"," ","R","e","p","u","b","l","i","c">>,
      <<"R","e","p","u","b","l","i","c"," ","o","f"," ","I","r","e","l","a","n","d">>>>,
    <<<<"N","o","r","t","h","e","r","n"," ","I","r","e","l","a","n","d">>,
      <<"N","o","r","t","h","e","r","n"," ","I","r","e","l","a","n","d">>>>,
    <<<<"F","R","A","N","C","E">>,
      <<"F","r","a","n","c","e">>>>,
    <<<<"B","R","A","Z","I","L">>,
      <<"B","r","a","z","i","l">>>>,
    <<<<"A","R","G","E","N","T","I","N","A">>,
      <<"A","r","g","e","n","t","i","n","a">>>> }

\* config.CITIES_MAPPING: alias -> canonical city name
CITIES_MAPPING ==
  { <<<<"M","O","N","T","E","V","I","D","E","O">>,
      <<"M","o","n","t","e","v","i","d","e","o">>>>,
    <<<<"M","E","X","I","C","O"," ","C","I","T","Y">>,
      <<"M","e","x","i","c","o"," ","C","i","t","y">>>>,
    <<<<"M","e","x","i","c","o"," ","(","M","é","x","i","c","o",")">>,
      <<"M","e","x","i","c","o"," ","C","i","t","y">>>>,
    <<<<"M","é","x","i","c","o">>,
      <<"M","e","x","i","c","o"," ","C","i","t","y">>>>,
    <<<<"S","a","o"," ","P","a","u","l","o">>,
      <<"S","ã","o"," ","P","a","u","l","o">>>>,
    <<<<"S","ã","o"," ","P","a","u","l","o">>,
      <<"S","ã","o"," ","P","a","u","l","o">>>>,
    <<<<"R","i","o"," ","d","e"," ","J","a","n","e","i","r","o">>,
      <<"R","i","o"," ","d","e"," ","J","a","n","e","i","r","o">>>>,
    <<<<"S","a","i","n","t","-","D","e","n","i","s">>,
      <<"P","a","r","i","s">>>>,
    <<<<"S","a","i","n","t"," ","D","e","n","i","s">>,
      <<"P","a","r","i","s">>>>,
    <<<<"R","O","M","E">>,
      <<"R","o","m","e">>>>,
    <<<<"P","A","R","I","S">>,
      <<"P","a","r","i","s">>>>,
    <<<<"B","E","R","L","I","N">>,
      <<"B","e","r","l","i","n">>>>,
    <<<<"L","O","N","D","O","N">>,
      <<"L","o","n","d","o","n">>>>,
    <<<<"M","A","D","R","I","D">>,
      <<"M","a","d","r","i","d">>>>,
    <<<<"B","A","R","C","E","L","O","N","A">>,
      <<"B","a","r","c","e","l","o","n","a">>>>,
    <<<<"B","U","E","N","O","S"," ","A","I","R","E","S">>,
      <<"B","u","e","n","o","s"," ","A","i","r","e","s">>>>,
    <<<<"B","r","a","s","i","l","i","a">>,
      <<"B","r","a","s","í","l","i","a">>>>,
    <<<<"B","r","a","s","í","l","i","a">>,
      <<"B","r","a","s","í","l","i","a">>>>,
    <<<<"B","e","l","o"," ","H","o","r","i","z","o","n","t","e">>,
      <<"B","e","l","o"," ","H","o","r","i","z","o","n","t","e">>>>,
    <<<<"P","o","r","t","o"," ","A","l","e","g","r","e">>,
      <<"P","o","r","t","o"," ","A","l","e","g","r","e">>>>,
    <<<<"C","u","r","i","t","i","b","a">>,
      <<"C","u","r","i","t","i","b","a">>>>,
    <<<<"M","a","n","a","u","s">>,
      <<"M","a","n","a","u","s">>>>,
    <<<<"F","o","r","t","a","l","e","z","a">>,
      <<"F","o","r","t","a","l","e","z","a">>>>,
    <<<<"R","e","c","i","f","e">>,
      <<"R","e","c","i","f","e">>>>,
    <<<<"S","a","l","v","a","d","o","r">>,
      <<"S","a","l","v","a","d","o","r">>>>,
    <<<<"N","a","t","a","l">>,
      <<"N","a","t","a","l">>>>,
    <<<<"C","u","i","a","b","a">>,
      <<"C","u","i","a","b","á">>>> }

\* config.ROUNDS_MAPPING: raw round label -> canonical label
ROUNDS_MAPPING ==
  { <<<<"G","R","O","U","P","_","S","T","A","G","E">>,
      <<"G","r","o","u","p"," ","S","t","a","g","e">>>>,
    <<<<"G","r","o","u","p"," ","A">>,
      <<"G","r","o","u","p"," ","S","t","a","g","e">>>>,
    <<<<"G","r","o","u","p"," ","B">>,
      <<"G","r","o","u","p"," ","S","t","a","g","e">>>>,
    <<<<"G","r","o","u","p"," ","C">>,
      <<"G","r","o","u","p"," ","S","t","a","g","e">>>>,
    <<<<"G","r","o","u","p"," ","D">>,
      <<"G","r","o","u","p"," ","S","t","a","g","e">>>>,
    <<<<"G","r","o","u","p"," ","E">>,
      <<"G","r","o","u","p"," ","S","t","a","g","e">>>>,
    <<<<"G","r","o","u","p"," ","F">>,
      <<"G","r","o","u","p"," ","S","t","a","g","e">>>>,
    <<<<"G","r","o","u","p"," ","G">>,
      <<"G","r","o","u","p"," ","S","t","a","g","e">>>>,
    <<<<"G","r","o","u","p"," ","H">>,
      <<"G","r","o","u","p"," ","S","t","a","g","e">>>>,
    <<<<"G","r","o","u","p"," ","1">>,
      <<"G","r","o","u","p"," ","S","t","a","g","e">>>>,
    <<<<"G","r","o","u","p"," ","2">>,
      <<"G","r","o","u","p"," ","S","t","a","g","e">>>>,
    <<<<"G","r","o","u","p"," ","3">>,
      <<"G","r","o","u","p"," ","S","t","a","g","e">>>>,
    <<<<"G","r","o","u","p"," ","4">>,
      <<"G","r","o","u","p"," ","S","t","a","g","e">>>>,
    <<<<"P","o","u","l","e","s">>,
      <<"G","r","o","u","p"," ","S","t","a","g","e">>>>,
    <<<<"F","i","r","s","t"," ","r","o","u","n","d">>,
      <<"G","r","o","u","p"," ","S","t","a","g","e">>>>,
    <<<<"P","r","e","l","i","m","i","n","a","r","y"," ","r","o","u","n","d">>,
      <<"G","r","o","u","p"," ","S","t","a","g","e">>>>,
    <<<<"8","e"," ","d","e"," ","f","i","n","a","l","e">>,
      <<"R","o","u","n","d"," ","o","f"," ","1","6">>>>,
    <<<<"R","o","u","n","d"," ","o","f"," ","1","6">>,
      <<"R","o","u","n","d"," ","o","f"," ","1","6">>>>,
    <<<<"R","O","U","N","D","_","O","F","_","1","6">>,
      <<"R","o","u","n","d"," ","o","f"," ","1","6">>>>,
    <<<<"E","i","g","h","t","h","-","f","i","n","a","l","s">>,
      <<"R","o","u","n","d"," ","o","f"," ","1","6">>>>,
    <<<<"1","/","4"," ","f","i","n","a","l","e">>,
      <<"Q","u","a","r","t","e","r","-","f","i","n","a","l","s">>>>,
    <<<<"Q","u","a","r","t","e","r","-","f","i","n","a","l","s">>,
      <<"Q","u","a","r","t","e","r","-","f","i","n","a","l","s">>>>,
    <<<<"Q","U","A","R","T","E","R","_","F","I","N","A","L","S">>,
      <<"Q","u","a","r","t","e","r","-","f","i","n","a","l","s">>>>,
    <<<<"Q","u","a","r","t","e","r","f","i","n","a","l","s">>,
      <<"Q","u","a","r","t","e","r","-","f","i","n","a","l","s">>>>,
    <<<<"1","/","2"," ","f","i","n","a","l","e">>,
      <<"S","e","m","i","-","f","i","n","a","l","s">>>>,
    <<<<"S","e","m","i","-","f","i","n","a","l","s">>,
      <<"S","e","m","i","-","f","i","n","a","l","s">>>>,
    <<<<"S","E","M","I","_","F","I","N","A","L","S">>,
      <<"S","e","m","i","-","f","i","n","a","l","s">>>>,
    <<<<"S","e","m","i","f","i","n","a","l","s">>,
      <<"S","e","m","i","-","f","i","n","a","l","s">>>>,
    <<<<"3","r","d"," ","p","l","a","c","e">>,
      <<"T","h","i","r","d"," ","P","l","a","c","e">>>>,
    <<<<"M","a","t","c","h"," ","p","o","u","r"," ","l","a"," ","3","e"," ","p","l","a","c","e">>,
      <<"T","h","i","r","d"," ","P","l","a","c","e">>>>,
    <<<<"T","h","i","r","d"," ","p","l","a","c","e">>,
      <<"T","h","i","r","d"," ","P","l","a","c","e">>>>,
    <<<<"P","l","a","y","-","o","f","f"," ","f","o","r"," ","t","h","i","r","d"," ","p","l","a","c","e">>,
      <<"T","h","i","r","d"," ","P","l","a","c","e">>>>,
    <<<<"F","i","n","a","l">>,
      <<"F","i","n","a","l">>>>,
    <<<<"F","i","n","a","l","e">>,
      <<"F","i","n","a","l">>>>,
    <<<<"F","I","N","A","L">>,
      <<"F","i","n","a","l">>>> }


(***************************************************************************)
(* Field normalizers (WorldCupTransformer)                                 *)
(***************************************************************************)

\* normalize_team: canonical team name of a raw cell
normalize_team(team_name) ==
  IF isna(team_name) THEN PyStr(s_Unknown)
  ELSE LET team0 == strip(str(team_name))
       IN IF isdigit(team0) THEN PyStr(s_Unknown)
          ELSE LET team == strip(replace_quote(sub_paren_greedy(team0)))
               IN IF contains(team, s_C_) /\ contains(team, s_Ivoire) THEN PyStr(s_Cote_dIvoire)
                  ELSE IF contains(team, s_Trinidad) /\ contains(team, s_Tobago)
                    THEN PyStr(s_Trinidad_and_Tobago)
                  ELSE IF InMap(TEAMS_MAPPING, team) THEN PyStr(Lookup(TEAMS_MAPPING, team))
                  ELSE IF InMap(TEAMS_MAPPING, title(team))
                    THEN PyStr(Lookup(TEAMS_MAPPING, title(team)))
                  ELSE IF contains(team, s_CTe) \/ contains(team, s_Cote_circ)
                          \/ contains(team, s_Cote)
                    THEN PyStr(s_Cote_dIvoire)
                  ELSE PyStr(title(team))

\* normalize_city: canonical city name of a raw cell, None when missing
normalize_city(city_name) ==
  IF isna(city_name) THEN None
  ELSE LET city0 == replace_quote(strip(str(city_name)))
           city == strip(sub_paren_each(city0))
       IN IF InMap(CITIES_MAPPING, city) THEN PyStr(title(Lookup(CITIES_MAPPING, city)))
          ELSE PyStr(title(city))

\* normalize_round: canonical round label of a raw cell, None when missing
normalize_round(round_str) ==
  IF isna(round_str) THEN None
  ELSE LET round_clean == replace_quote(strip(str(round_str)))
       IN IF InMap(ROUNDS_MAPPING, round_clean) THEN PyStr(Lookup(ROUNDS_MAPPING, round_clean))
          ELSE IF contains(lower(round_clean), s_group) \/ contains(lower(round_clean), s_poule)
            THEN PyStr(s_Group_Stage)
          ELSE PyStr(title(round_clean))

\* truth value of a Python object used as a condition
truthy(v) ==
  IF IsStr(v) THEN Len(v[2]) > 0
  ELSE IF IsInt(v) THEN v[2] # 0
  ELSE v # None

\* compute_result: the winner's name, "draw", or None
compute_result(home_goals, away_goals, home_team, away_team) ==
  IF isna(home_goals) \/ isna(away_goals) THEN None
  ELSE IF ~int_ok(home_goals) \/ ~int_ok(away_goals) THEN None
  ELSE LET h == int_val(home_goals)
           a == int_val(away_goals)
       IN IF h > a THEN (IF truthy(home_team) THEN PyStr(str(home_team)) ELSE PyStr(s_home_team))
          ELSE IF a > h THEN (IF truthy(away_team) THEN PyStr(str(away_team)) ELSE PyStr(s_away_team))
          ELSE PyStr(s_draw)

(***************************************************************************)
(* Date parsing                                                            *)
(***************************************************************************)
MONTHS == <<<<"j","a","n">>, <<"f","e","b">>, <<"m","a","r">>, <<"a","p","r">>,
            <<"m","a","y">>, <<"j","u","n">>, <<"j","u","l">>, <<"a","u","g">>,
            <<"s","e","p">>, <<"o","c","t">>, <<"n","o","v">>, <<"d","e","c">>>>
s_sep_time == <<" ","-"," ">>

\* s.split(): the blank-separated tokens of s
RECURSIVE split_ws(_)
split_ws(s) ==
  LET t == strip(s)
  IN IF Len(t) = 0 THEN <<>>
     ELSE LET sp == {i \in 1..Len(t) : IsSpaceCh(t[i])}
          IN IF sp = {} THEN <<t>>
             ELSE <<SubSeq(t, 1, Min(sp) - 1)>> \o split_ws(SubSeq(t, Min(sp) + 1, Len(t)))

\* s.split(sep)[0]
split_first(s, sep) ==
  LET hits == {i \in 0..(Len(s) - Len(sep)) : SubSeq(s, i + 1, i + Len(sep)) = sep}
  IN IF hits = {} THEN s ELSE SubSeq(s, 1, Min(hits))

month_no(tok) ==
  IF \E m \in 1..12 : MONTHS[m] = lower(tok)
  THEN CHOOSE m \in 1..12 : MONTHS[m] = lower(tok) ELSE 0

\* pd.to_datetime(s, format='%d %b %Y'); None stands for the exception that
\* parse_datetime turns into None
strptime_d_b_Y(s) ==
  LET tk == split_ws(s)
  IN IF Len(tk) = 3 /\ isdigit(tk[1]) /\ Len(tk[1]) <= 2 /\ digits_val(tk[1]) \in 1..31
        /\ month_no(tk[2]) > 0 /\ isdigit(tk[3]) /\ Len(tk[3]) = 4
     THEN PyTs(digits_val(tk[3]) * 10000 + month_no(tk[2]) * 100 + digits_val(tk[1]))
     ELSE None

\* pd.to_datetime(s) without a format, for the ISO form YYYY-MM-DD; every
\* other text is taken as unparsable (None)
to_datetime_iso(s) ==
  IF Len(s) = 10 /\ s[5] = "-" /\ s[8] = "-" /\ isdigit(SubSeq(s, 1, 4))
     /\ isdigit(SubSeq(s, 6, 7)) /\ isdigit(SubSeq(s, 9, 10))
     /\ digits_val(SubSeq(s, 6, 7)) \in 1..12 /\ digits_val(SubSeq(s, 9, 10)) \in 1..31
  THEN PyTs(digits_val(SubSeq(s, 1, 4)) * 10000 + digits_val(SubSeq(s, 6, 7)) * 100
            + digits_val(SubSeq(s, 9, 10)))
  ELSE None

\* parse_datetime: the date of a raw cell, None when missing or unparsable
parse_datetime(datetime_str) ==
  IF isna(datetime_str) THEN None
  ELSE LET s == replace_quote(strip(str(datetime_str)))
       IN IF contains(s, s_sep_time) THEN strptime_d_b_Y(strip(split_first(s, s_sep_time)))
          ELSE IF Len(split_ws(s)) = 3 THEN strptime_d_b_Y(s)
          ELSE to_datetime_iso(s)

(***************************************************************************)
(* Tables                                                                  *)
(***************************************************************************)
\* a pandas DataFrame holding the given rows; pd.DataFrame() is PyDf(<<>>)
PyDf(rows) == <<"df", rows>>
IsDf(v) == Len(v) = 2 /\ v[1] = "df"
df_rows(df) == df[2]
df_empty(df) == Len(df[2]) = 0

\* pd.to_numeric(col, errors='coerce').fillna(0).astype(int), on one cell
to_numeric_fillna0_int(v) ==
  IF notna(v) /\ int_ok(v) THEN PyInt(int_val(v)) ELSE PyInt(0)

\* transform_source2 on one row of the 2014 source
transform_source2_row(r) ==
  LET hr == to_numeric_fillna0_int(r.Home_Team_Goals)
      ar == to_numeric_fillna0_int(r.Away_Team_Goals)
      ht == normalize_team(r.Home_Team_Name)
      at == normalize_team(r.Away_Team_Name)
  IN [home_team |-> ht, away_team |-> at, home_result |-> hr, away_result |-> ar,
      result |-> compute_result(hr, ar, ht, at),
      date |-> parse_datetime(r.Datetime),
      round |-> normalize_round(r.Stage),
      city |-> normalize_city(r.City),
      edition |-> PyStr(str(r.Year))]


(***************************************************************************)
(* consolidate                                                             *)
(***************************************************************************)
s_jan_first == <<"-","0","1","-","0","1">>

\* valid_dfs giving up at a None table instead of skipping it
valid_dfs_none_ends(dfs) ==
  IF \E i \in 1..Len(dfs) : dfs[i] = None THEN <<>>
  ELSE SelectSeq(dfs, LAMBDA df : ~df_empty(df))

\* the tables consolidate keeps: neither None nor empty
valid_dfs(dfs) == SelectSeq(dfs, LAMBDA df : df # None /\ ~df_empty(df))

\* pd.concat(valid_dfs, ignore_index=True): the rows of the tables in list
\* order; a row's position is its index label until reset_index
RECURSIVE concat(_)
concat(dfs) == IF Len(dfs) = 0 THEN <<>> ELSE df_rows(Head(dfs)) \o concat(Tail(dfs))

\* pd.to_datetime(edition + '-01-01', errors='coerce') on one cell: a date
\* for a four-digit year, NaT otherwise
fallback_date(edition) ==
  IF IsStr(edition) /\ to_datetime_iso(edition[2] \o s_jan_first) # None
  THEN to_datetime_iso(edition[2] \o s_jan_first) ELSE NaT

\* edition + '-01-01' raises when a dateless row holds an edition that is
\* neither a str nor missing; the except branch then leaves all dates as is
fallback_raises(rows) ==
  \E i \in 1..Len(rows) : isna(rows[i].date) /\ notna(rows[i].edition) /\ ~IsStr(rows[i].edition)

\* a consolidation that rescues no date
rescue_nothing(rows) == rows
rescue_missing_dates(rows) ==
  IF fallback_raises(rows) THEN rows
  ELSE [i \in 1..Len(rows) |->
          IF isna(rows[i].date) THEN [rows[i] EXCEPT !.date = fallback_date(rows[i].edition)]
          ELSE rows[i]]

\* dropna(subset=['home_team', 'away_team']) keeps the row
has_teams(r) == notna(r.home_team) /\ notna(r.away_team)

\* mask_exclude matching the letter case (case=True)
mask_exclude_case_sensitive(r) ==
  contains(str(r.round), <<"p","r","e","l","i","m","i","n","a","r","y">>)

\* round.astype(str).str.contains('preliminary', case=False, na=False)
mask_exclude(r) == contains(lower(str(r.round)), <<"p","r","e","l","i","m","i","n","a","r","y">>)

\* the value drop_duplicates compares: missing values count as equal
dup_value(v) == IF isna(v) THEN NaN ELSE v
dup_key(r) == <<dup_value(r.home_team), dup_value(r.away_team), dup_value(r.date), dup_value(r.round)>>

\* drop_duplicates with keep='last'
drop_duplicates_keep_last(rows, idx) ==
  {i \in idx : ~\E j \in idx : j > i /\ dup_key(rows[j]) = dup_key(rows[i])}

\* drop_duplicates(subset=[home_team, away_team, date, round], keep='first')
\* on the rows at the positions idx
drop_duplicates(rows, idx) ==
  {i \in idx : ~\E j \in idx : j < i /\ dup_key(rows[j]) = dup_key(rows[i])}

\* positions left after the dropna, the preliminary filter and the dedup
surviving(rows) ==
  drop_duplicates(rows, {i \in 1..Len(rows) : has_teams(rows[i]) /\ ~mask_exclude(rows[i])})

\* is_sorted_by_date with ascending=False
is_sorted_by_date_descending(rows, order) ==
  \A a, b \in 1..Len(order) :
    a < b =>
      LET da == rows[order[a]].date
          db == rows[order[b]].date
      IN IF isna(da) THEN isna(db) /\ order[a] < order[b]
         ELSE isna(db) \/ da[2] >= db[2]

\* sort_values('date'): dated rows by ascending date, dateless rows after
\* them in their previous order; the default sort kind is not stable, so
\* rows of equal date come in any order
is_sorted_by_date(rows, order) ==
  \A a, b \in 1..Len(order) :
    a < b =>
      LET da == rows[order[a]].date
          db == rows[order[b]].date
      IN IF isna(da) THEN isna(db) /\ order[a] < order[b]
         ELSE isna(db) \/ da[2] <= db[2]

sort_values(rows, idx) ==
  {order \in [1..Cardinality(idx) -> idx] :
     /\ \A a, b \in 1..Cardinality(idx) : a # b => order[a] # order[b]
     /\ is_sorted_by_date(rows, order)}

\* id_match_range counting from 0: range(len(df_all))
id_match_range_from_zero(n) == [i \in 1..n |-> PyInt(i - 1)]

\* df_all['id_match'] = range(1, len(df_all) + 1)
id_match_range(n) == [i \in 1..n |-> PyInt(i)]

\* the final projection on the ten columns, for one sorted order
final_rows(rows, order) ==
  [k \in 1..Len(order) |->
     LET r == rows[order[k]]
     IN [id_match |-> id_match_range(Len(order))[k],
         home_team |-> r.home_team, away_team |-> r.away_team,
         home_result |-> r.home_result, away_result |-> r.away_result,
         result |-> r.result,
         date |-> IF isna(r.date) THEN NaT ELSE r.date,
         round |-> r.round, city |-> r.city, edition |-> r.edition]]

\* consolidate(dfs_list): the possible results as pairs <<table, order>>,
\* order being the index labels before reset_index (the positions in the
\* concatenation); <<None, <<>>>> when no table is valid
consolidate(dfs) ==
  IF Len(valid_dfs(dfs)) = 0 THEN {<<None, <<>>>>}
  ELSE LET rows == rescue_missing_dates(concat(valid_dfs(dfs)))
       IN {<<PyDf(final_rows(rows, order)), order>> : order \in sort_values(rows, surviving(rows))}

(***************************************************************************)
(* The pipeline on the 2014 source shape: the caller transforms each       *)
(* source table it holds, then consolidates the list                       *)
(***************************************************************************)
VARIABLES
  sources,      \* the list given to the transform stage: raw tables, None, pd.DataFrame()
  dfs_list,     \* the list given to consolidate
  final_df,     \* what consolidate returned
  final_index,  \* index labels of final_df before reset_index
  home_goals, away_goals, home_team, away_team,  \* the arguments of compute_result
  result,       \* what compute_result returned
  df,           \* the table given to validate
  is_valid,     \* what validate returned, or the exception it raised
  df_2022, df_cities,   \* the arguments of enrich_2022_with_cities
  df_2022_enriched,     \* what enrich_2022_with_cities returned
  df_matches, df_dates, \* the arguments of enrich_with_historical_dates
  df_enriched,          \* what enrich_with_historical_dates returned, or the exception
  score_str, score,     \* the argument of parse_score and what it returned
  team_name, team,      \* the argument of normalize_team and what it returned
  conn,                 \* the loader's connection: None until connect
  world_cup_matches,    \* the committed rows of the table world_cup_matches
  df_to_load,           \* the table given to load_data
  load_outcome,         \* how the last load_data ended
  pc

pipeline_vars == <<sources, dfs_list, final_df, final_index>>
result_vars == <<home_goals, away_goals, home_team, away_team, result>>
validate_vars == <<df, is_valid>>
cities_vars == <<df_2022, df_cities, df_2022_enriched>>
dates_vars == <<df_matches, df_dates, df_enriched>>
score_vars == <<score_str, score>>
team_vars == <<team_name, team>>
load_vars == <<conn, world_cup_matches, df_to_load, load_outcome>>
vars == <<pipeline_vars, result_vars, validate_vars, cities_vars, dates_vars,
          score_vars, team_vars, load_vars, pc>>

\* the variables of a part of the program that a specification leaves out
NoPipeline == sources = <<>> /\ dfs_list = <<>> /\ final_df = None /\ final_index = <<>>
NoResult == home_goals = None /\ away_goals = None /\ home_team = None /\ away_team = None
            /\ result = None
NoValidate == df = None /\ is_valid = None
NoCities == df_2022 = None /\ df_cities = None /\ df_2022_enriched = None
NoDates == df_matches = None /\ df_dates = None /\ df_enriched = None
NoScore == score_str = None /\ score = None
NoTeam == team_name = None /\ team = None
NoLoad == conn = None /\ world_cup_matches = {} /\ df_to_load = None /\ load_outcome = None

MaxTables == 2
MaxRows == 3

s_Brazil == <<"B","r","a","z","i","l">>
s_France == <<"F","r","a","n","c","e">>
s_West_Germany == <<"W","e","s","t"," ","G","e","r","m","a","n","y">>
s_Final == <<"F","i","n","a","l">>
s_Preliminary_round == <<"P","r","e","l","i","m","i","n","a","r","y"," ","r","o","u","n","d">>
s_preliminary_round_lc == <<"p","r","e","l","i","m","i","n","a","r","y"," ","r","o","u","n","d">>
s_Rio == <<"R","i","o"," ","d","e"," ","J","a","n","e","i","r","o">>
s_13_Jul_2014 == <<"1","3"," ","J","u","l"," ","2","0","1","4"," ","-"," ","1","6",":","0","0">>
s_01_Jan_2014 == <<"0","1"," ","J","a","n"," ","2","0","1","4">>
s_unknown_lc == <<"u","n","k","n","o","w","n">>

\* a row of the 2014 source (Brazil at home, in Rio, the visitors scoring 0)
Raw2014(away, goals, stage, datetime, year) ==
  [Home_Team_Name |-> PyStr(s_Brazil), Away_Team_Name |-> PyStr(away),
   Home_Team_Goals |-> PyInt(goals), Away_Team_Goals |-> PyInt(0),
   Stage |-> PyStr(stage), Datetime |-> datetime, Year |-> year, City |-> PyStr(s_Rio)]

\* the raw rows the sources are made of: the same match twice with two
\* scores, the two letter cases of the preliminary label, rows with no
\* usable date for two editions and for an edition that is no year, and a
\* row dated January 1st
RawRows ==
  { Raw2014(s_France, 1, s_Final, PyStr(s_13_Jul_2014), PyInt(2014)),
    Raw2014(s_France, 2, s_Final, PyStr(s_13_Jul_2014), PyInt(2014)),
    Raw2014(s_West_Germany, 1, s_Preliminary_round, PyStr(s_13_Jul_2014), PyInt(2014)),
    Raw2014(s_France, 1, s_preliminary_round_lc, PyStr(s_13_Jul_2014), PyInt(2014)),
    Raw2014(s_France, 1, s_Final, NaN, PyInt(2014)),
    Raw2014(s_France, 1, s_Final, PyStr(s_01_Jan_2014), PyInt(2014)),
    Raw2014(s_France, 1, s_Final, NaN, PyInt(2010)),
    Raw2014(s_France, 1, s_Final, PyStr(s_unknown_lc), PyStr(s_unknown_lc)) }

\* shapes of a source list: per entry -1 for None, else the number of rows
Seqs(S, n) == UNION {[1..k -> S] : k \in 0..n}
RECURSIVE shape_rows(_)
shape_rows(sh) == IF Len(sh) = 0 THEN 0
                  ELSE (IF Head(sh) > 0 THEN Head(sh) ELSE 0) + shape_rows(Tail(sh))
Shapes == {sh \in Seqs((-1)..MaxRows, MaxTables) : shape_rows(sh) <= MaxRows}

\* the list of shape sh whose rows, in list order, are flat
RECURSIVE build_list(_, _)
build_list(sh, flat) ==
  IF Len(sh) = 0 THEN <<>>
  ELSE IF Head(sh) < 0 THEN <<None>> \o build_list(Tail(sh), flat)
  ELSE <<PyDf(SubSeq(flat, 1, Head(sh)))>>
       \o build_list(Tail(sh), SubSeq(flat, Head(sh) + 1, Len(flat)))

\* transform_source2_row on each raw row, computed once
Canonical2014 == [r \in RawRows |-> transform_source2_row(r)]

\* transform_source2: the canonical table of a 2014-source table that has
\* all its columns
transform_source2(df_raw) ==
  PyDf([i \in 1..Len(df_rows(df_raw)) |-> Canonical2014[df_rows(df_raw)[i]]])

Init ==
  /\ \E sh \in Shapes : \E flat \in [1..shape_rows(sh) -> RawRows] :
       sources = build_list(sh, flat)
  /\ dfs_list = <<>>
  /\ final_df = None
  /\ final_index = <<>>
  /\ NoResult /\ NoValidate /\ NoCities /\ NoDates /\ NoScore /\ NoTeam /\ NoLoad
  /\ pc = "extracted"

\* the transform stage: transform_source2 on every table that has rows;
\* None and the empty DataFrame go to consolidate as they are
TransformSources ==
  /\ pc = "extracted"
  /\ dfs_list' = [i \in 1..Len(sources) |->
                    IF sources[i] = None \/ df_empty(sources[i]) THEN sources[i]
                    ELSE transform_source2(sources[i])]
  /\ pc' = "transformed"
  /\ UNCHANGED <<sources, final_df, final_index, result_vars, validate_vars, cities_vars, dates_vars, score_vars, team_vars, load_vars>>

\* df_final = transformer.consolidate(dfs_list)
Consolidate ==
  /\ pc = "transformed"
  /\ \E res \in consolidate(dfs_list) :
       /\ final_df' = res[1]
       /\ final_index' = res[2]
  /\ pc' = "done"
  /\ UNCHANGED <<sources, dfs_list, result_vars, validate_vars, cities_vars, dates_vars, score_vars, team_vars, load_vars>>

Next == TransformSources \/ Consolidate

Spec == Init /\ [][Next]_vars


(***************************************************************************)
(* Properties of the pipeline                                              *)
(***************************************************************************)
Range(f) == {f[i] : i \in DOMAIN f}
Done == pc = "done" /\ final_df # None
FinalRows == df_rows(final_df)

\* the rows given to consolidate and the raw rows they come from, in list
\* order (None and empty entries have no rows)
RECURSIVE RowsInListOrder(_)
RowsInListOrder(L) ==
  IF Len(L) = 0 THEN <<>>
  ELSE (IF Head(L) = None THEN <<>> ELSE df_rows(Head(L))) \o RowsInListOrder(Tail(L))
InputRows == RowsInListOrder(dfs_list)
SourceRows == RowsInListOrder(sources)

\* the key (home_team, away_team, date, round) of a row, a missing date
\* being one value
MatchDate(r) == IF r.date \in {None, NaN, NaT} THEN NaT ELSE r.date
MatchKey(r) == <<r.home_team, r.away_team, MatchDate(r), r.round>>
\* the fields outside the key
OtherFields(r) == <<r.home_result, r.away_result, r.result, r.city, r.edition>>

\* the label contains "preliminary" in some letter case
HasPreliminary(label) ==
  \E i \in 0..(Len(label) - 11) :
    lower(SubSeq(label, i + 1, i + 11)) = <<"p","r","e","l","i","m","i","n","a","r","y">>
PreliminaryRounds == {c.round : c \in {cc \in Range(Canonical2014) : cc.round # None /\ HasPreliminary(cc.round[2])}}
PreliminaryStages == {r.Stage : r \in {rr \in RawRows : HasPreliminary(rr.Stage[2])}}

\* January 1st of a four-digit edition year, NaT for any other edition
JanuaryFirst(edition) ==
  IF Len(edition[2]) = 4 /\ \A i \in 1..4 : IsDigitCh(edition[2][i])
  THEN PyTs(digits_val(edition[2]) * 10000 + 101) ELSE NaT
\* the key once a dateless row has the date January 1st of its edition
DatedKey(r) ==
  <<r.home_team, r.away_team,
    IF MatchDate(r) = NaT THEN JanuaryFirst(r.edition) ELSE r.date, r.round>>

\* C1: the id_match values of a consolidated table of N rows are pairwise
\* distinct and their set is exactly {1..N}
C1_IdMatchOneToN ==
  Done =>
    /\ \A i, j \in 1..Len(FinalRows) : i # j => FinalRows[i].id_match # FinalRows[j].id_match
    /\ {FinalRows[i].id_match : i \in 1..Len(FinalRows)} = {PyInt(k) : k \in 1..Len(FinalRows)}

C1_Witness == Done /\ Len(FinalRows) = MaxRows

\* C2 as stated: a key that two input tables both hold is the key of exactly
\* one consolidated row, which has the other fields of the first occurrence
\* in list order; no two consolidated rows share a key
C2_SharedKeyOnce ==
  Done =>
    /\ \A k, l \in 1..Len(FinalRows) : k # l => MatchKey(FinalRows[k]) # MatchKey(FinalRows[l])
    /\ \A s, t \in 1..Len(dfs_list) :
         (s # t /\ dfs_list[s] # None /\ dfs_list[t] # None) =>
           \A a \in 1..Len(df_rows(dfs_list[s])) : \A b \in 1..Len(df_rows(dfs_list[t])) :
             MatchKey(df_rows(dfs_list[s])[a]) = MatchKey(df_rows(dfs_list[t])[b]) =>
               LET key == MatchKey(df_rows(dfs_list[s])[a])
                   first == Min({p \in 1..Len(InputRows) : MatchKey(InputRows[p]) = key})
                   hits == {k \in 1..Len(FinalRows) : MatchKey(FinalRows[k]) = key}
               IN /\ Cardinality(hits) = 1
                  /\ \A k \in hits : OtherFields(FinalRows[k]) = OtherFields(InputRows[first])

\* C2 amended: the same for every key whose round does not contain
\* "preliminary", the date of a dateless row being January 1st of its edition
C2_SharedDatedKeyOnce ==
  Done =>
    /\ \A k, l \in 1..Len(FinalRows) : k # l => MatchKey(FinalRows[k]) # MatchKey(FinalRows[l])
    /\ \A s, t \in 1..Len(dfs_list) :
         (s # t /\ dfs_list[s] # None /\ dfs_list[t] # None) =>
           \A a \in 1..Len(df_rows(dfs_list[s])) : \A b \in 1..Len(df_rows(dfs_list[t])) :
             (/\ DatedKey(df_rows(dfs_list[s])[a]) = DatedKey(df_rows(dfs_list[t])[b])
              /\ df_rows(dfs_list[s])[a].round \notin PreliminaryRounds) =>
               LET key == DatedKey(df_rows(dfs_list[s])[a])
                   first == Min({p \in 1..Len(InputRows) : DatedKey(InputRows[p]) = key})
                   hits == {k \in 1..Len(FinalRows) : MatchKey(FinalRows[k]) = key}
               IN /\ Cardinality(hits) = 1
                  /\ \A k \in hits : OtherFields(FinalRows[k]) = OtherFields(InputRows[first])

\* two tables hold the same dated match with two scores, and it is kept
C2_Witness ==
  /\ Done
  /\ \E s, t \in 1..Len(dfs_list) :
       /\ s < t /\ dfs_list[s] # None /\ dfs_list[t] # None
       /\ \E a \in 1..Len(df_rows(dfs_list[s])) : \E b \in 1..Len(df_rows(dfs_list[t])) :
            /\ DatedKey(df_rows(dfs_list[s])[a]) = DatedKey(df_rows(dfs_list[t])[b])
            /\ OtherFields(df_rows(dfs_list[s])[a]) # OtherFields(df_rows(dfs_list[t])[b])
            /\ \E k \in 1..Len(FinalRows) : MatchKey(FinalRows[k]) = DatedKey(df_rows(dfs_list[s])[a])

\* C3: a source row whose raw round label contains "preliminary" in any
\* letter case is absent from the final table
C3_PreliminaryAbsent ==
  Done =>
    \A p \in 1..Len(SourceRows) : SourceRows[p].Stage \in PreliminaryStages => p \notin Range(final_index)

\* C4: id_match is the 1-based rank in ascending date order, the rows
\* without a date after all dated rows
C4_IdMatchRanksDates ==
  Done =>
    /\ \A k \in 1..Len(FinalRows) : FinalRows[k].id_match = PyInt(k)
    /\ \A i, j \in 1..Len(FinalRows) :
         (FinalRows[i].id_match[2] < FinalRows[j].id_match[2] /\ FinalRows[j].date # NaT) =>
           (FinalRows[i].date # NaT /\ FinalRows[i].date[2] <= FinalRows[j].date[2])

\* two rows of different dates that came in descending date order, and a
\* dateless row
C4_Witness ==
  /\ Done
  /\ \E i, j, k \in 1..Len(FinalRows) :
       /\ FinalRows[i].date # NaT /\ FinalRows[j].date # NaT /\ FinalRows[k].date = NaT
       /\ FinalRows[i].date[2] < FinalRows[j].date[2]
       /\ final_index[i] > final_index[j]

\* C7 as stated: the final rows are the input rows that are neither
\* preliminary nor duplicates of an earlier row on the key, each once
C7_Kept == {p \in 1..Len(InputRows) :
              /\ InputRows[p].round \notin PreliminaryRounds
              /\ ~\E q \in 1..(p - 1) : MatchKey(InputRows[q]) = MatchKey(InputRows[p])}
C7_DatedKept == {p \in 1..Len(InputRows) :
                   /\ InputRows[p].round \notin PreliminaryRounds
                   /\ ~\E q \in 1..(p - 1) : DatedKey(InputRows[q]) = DatedKey(InputRows[p])}
C9_Remaining == SelectSeq(dfs_list, LAMBDA d : d \notin {None, PyDf(<<>>)})
C9_NoneOrRemaining ==
  pc = "done" =>
    IF Len(C9_Remaining) = 0 THEN final_df = None
    ELSE final_df # None /\ <<final_df, final_index>> \in consolidate(C9_Remaining)

\* a list with a None or empty table and a table with rows
C9_Witness ==
  /\ Done
  /\ Len(FinalRows) > 0
  /\ \E i \in 1..Len(dfs_list) : dfs_list[i] \in {None, PyDf(<<>>)}


\* C26: a row given to consolidate without a date has, in the final table,
\* the date January 1st of its edition year, or no date when its edition is
\* not a year; a dateless row is not dropped for being dateless, and the
\* dateless rows of the final table come after all its dated rows
C26_DatelessRows ==
  Done =>
    /\ \A k \in 1..Len(FinalRows) :
         isna(InputRows[final_index[k]].date) =>
           FinalRows[k].date = JanuaryFirst(InputRows[final_index[k]].edition)
    /\ \A i \in 1..Len(InputRows) :
         (/\ isna(InputRows[i].date)
          /\ JanuaryFirst(InputRows[i].edition) = NaT
          /\ has_teams(InputRows[i]) /\ ~HasPreliminary(str(InputRows[i].round)))
           => \E k \in 1..Len(FinalRows) :
                /\ FinalRows[k].date = NaT
                /\ MatchKey(FinalRows[k]) = MatchKey(InputRows[i])
    /\ \A a, b \in 1..Len(FinalRows) :
         (a < b /\ FinalRows[a].date = NaT) => FinalRows[b].date = NaT

\* a final table with a row rescued to January 1st, before a row that
\* stayed dateless because its edition is no year
C26_Witness ==
  /\ Done
  /\ \E a, b \in 1..Len(FinalRows) :
       /\ a < b
       /\ isna(InputRows[final_index[a]].date)
       /\ FinalRows[a].date = PyTs(20140101)
       /\ isna(InputRows[final_index[b]].date)
       /\ FinalRows[b].date = NaT

\* C27: the date sort of consolidate is stable: final rows of equal date are
\* in the order of the concatenation of the source tables
C27_EqualDatesKeepListOrder ==
  Done =>
    \A a, b \in 1..Len(FinalRows) :
      (a < b /\ FinalRows[a].date = FinalRows[b].date) => final_index[a] < final_index[b]

(***************************************************************************)
(* compute_result on its own                                               *)
(***************************************************************************)
MaxGoals == 2
s_invalid == <<"i","n","v","a","l","i","d">>

\* scores: small integers, the missing markers and a text that is no number
GoalValues == {PyInt(n) : n \in 0..MaxGoals} \cup {None, NaN, PyStr(s_invalid)}
\* names a transformer passes: normalize_team results, the empty name included
TeamNames == {PyStr(s_Brazil), PyStr(s_France), PyStr(<<>>)}

InitResult ==
  /\ home_goals \in GoalValues /\ away_goals \in GoalValues
  /\ home_team \in TeamNames /\ away_team \in TeamNames
  /\ result = None
  /\ NoPipeline /\ NoValidate /\ NoCities /\ NoDates /\ NoScore /\ NoTeam /\ NoLoad
  /\ pc = "call"

ComputeResult ==
  /\ pc = "call"
  /\ result' = compute_result(home_goals, away_goals, home_team, away_team)
  /\ pc' = "returned"
  /\ UNCHANGED <<home_goals, away_goals, home_team, away_team,
                 pipeline_vars, validate_vars, cities_vars, dates_vars, score_vars, team_vars, load_vars>>

SpecResult == InitResult /\ [][ComputeResult]_vars

\* C10: compute_result returns the home team's name when it scored more,
\* the away team's name when that scored more, "draw" on equal scores and
\* None when a score is missing or not a number; so the result is one of
\* home_team, away_team, "draw" or None
C10_ResultNamesWinner ==
  pc = "returned" =>
    /\ result \in {home_team, away_team, PyStr(s_draw), None}
    /\ IF home_goals[1] = "int" /\ away_goals[1] = "int"
       THEN /\ home_goals[2] > away_goals[2] => result = home_team
            /\ away_goals[2] > home_goals[2] => result = away_team
            /\ home_goals[2] = away_goals[2] => result = PyStr(s_draw)
       ELSE result = None


(***************************************************************************)
(* validate                                                                *)
(***************************************************************************)
required_cols == {"id_match", "home_team", "away_team", "home_result", "away_result",
                  "result", "date", "round", "city", "edition"}

\* an exception leaving a function
Raise(e) == <<"raise", e>>
True == <<"bool", TRUE>>

\* row['home_result'] <= row['away_result']: false when either is NaN
le(x, y) == IsInt(x) /\ IsInt(y) /\ x[2] <= y[2]

\* row[col] inside the loop of validate: KeyError when the row has no such column
has_col(row, col) == col \in DOMAIN row

\* the body of the loop of validate on one row:
\* "KeyError", "issue" (an inconsistency is recorded) or "ok"
check_row(row) ==
  IF ~has_col(row, "result") THEN "KeyError"
  ELSE IF row.result = PyStr(s_draw) \/ row.result = None THEN "ok"
  ELSE IF ~has_col(row, "home_team") THEN "KeyError"
  ELSE IF row.result = row.home_team
       THEN IF ~has_col(row, "home_result") \/ ~has_col(row, "away_result") THEN "KeyError"
            ELSE IF le(row.home_result, row.away_result) THEN "issue"
            ELSE IF ~has_col(row, "away_team") THEN "KeyError"
            ELSE IF row.result = row.away_team /\ le(row.away_result, row.home_result)
                 THEN "issue" ELSE "ok"
  ELSE IF ~has_col(row, "away_team") THEN "KeyError"
  ELSE IF row.result = row.away_team
       THEN IF ~has_col(row, "away_result") \/ ~has_col(row, "home_result") THEN "KeyError"
            ELSE IF le(row.away_result, row.home_result) THEN "issue" ELSE "ok"
  ELSE "ok"

\* the issues validate collects (it reports none of them to the caller)
issues(table) ==
  {<<"missing", c>> : c \in {c \in required_cols : \E i \in 1..Len(df_rows(table)) :
                                                     ~has_col(df_rows(table)[i], c)}}
  \cup {<<"winner", i>> : i \in {i \in 1..Len(df_rows(table)) :
                                   check_row(df_rows(table)[i]) = "issue"}}

validate(table) ==
  IF \E i \in 1..Len(df_rows(table)) : check_row(df_rows(table)[i]) = "KeyError"
  THEN Raise("KeyError")
  ELSE True

MaxValidateRows == 2

\* a consolidated row of Brazil against France
ValidRows ==
  {[id_match |-> PyInt(1), home_team |-> PyStr(s_Brazil), away_team |-> PyStr(s_France),
    home_result |-> PyInt(h), away_result |-> PyInt(a), result |-> r,
    date |-> PyTs(20140713), round |-> PyStr(s_Final), city |-> PyStr(s_Rio),
    edition |-> PyStr(<<"2","0","1","4">>)] :
     h \in 0..1, a \in 0..1, r \in {PyStr(s_Brazil), PyStr(s_France), PyStr(s_draw), None}}

\* the table without one of its columns
drop_col(rows, col) ==
  [i \in 1..Len(rows) |-> [c \in DOMAIN rows[i] \ {col} |-> rows[i][c]]]

InitValidate ==
  /\ \E n \in 0..MaxValidateRows : \E rows \in [1..n -> ValidRows] :
       \/ df = PyDf(rows)
       \/ \E col \in required_cols : n > 0 /\ df = PyDf(drop_col(rows, col))
  /\ is_valid = None
  /\ NoPipeline /\ NoResult /\ NoCities /\ NoDates /\ NoScore /\ NoTeam /\ NoLoad
  /\ pc = "call"

Validate ==
  /\ pc = "call"
  /\ is_valid' = validate(df)
  /\ pc' = "returned"
  /\ UNCHANGED <<df, pipeline_vars, result_vars, cities_vars, dates_vars, score_vars, team_vars, load_vars>>

SpecValidate == InitValidate /\ [][Validate]_vars

\* C8: validate returns True, raising nothing, for every table it is given:
\* one whose winner has not the higher score, one that lacks a required column
C8_ValidateReturnsTrue ==
  pc = "returned" => is_valid = True


(***************************************************************************)
(* enrich_2022_with_cities                                                 *)
(***************************************************************************)
\* the characters in code point order, for the comparison of Python strs
CODEPOINTS == <<" ","\"","'","(",")","-",".","/","0","1","2","3","4","5","6","7","8","9",":","A","B","C","D","E","F","G","H","I","J","K","L","M","N","O","P","Q","R","S","T","U","V","W","X","Y","Z","_","a","b","c","d","e","f","g","h","i","j","k","l","m","n","o","p","q","r","s","t","u","v","w","x","y","z","Á","Ã","É","Í","Ô","á","ã","é","í","ô">>
ord(c) == CHOOSE i \in 1..Len(CODEPOINTS) : CODEPOINTS[i] = c

\* s <= t on Python strs
RECURSIVE str_le(_, _)
str_le(s, t) ==
  IF Len(s) = 0 THEN TRUE
  ELSE IF Len(t) = 0 THEN FALSE
  ELSE IF s[1] = t[1] THEN str_le(Tail(s), Tail(t))
  ELSE ord(s[1]) < ord(t[1])

\* sorted([t1, t2])
sorted2(t1, t2) == IF str_le(t1, t2) THEN <<t1, t2>> ELSE <<t2, t1>>

\* city_lookup after the loop over df_cities: a later row of a key replaces
\* the value an earlier row gave it
lookup_key(row) == <<normalize_team(row.home_team), normalize_team(row.away_team)>>
city_lookup(cities) ==
  LET keys == [j \in 1..Len(cities) |-> lookup_key(cities[j])]
  IN [k \in {keys[j] : j \in 1..Len(cities)} |->
        normalize_city(cities[Max({j \in 1..Len(cities) : keys[j] = k})].city)]

find_city_any_city(row, lookup) ==
  LET t1 == normalize_team(row.home_team)
      t2 == normalize_team(row.away_team)
  IN IF <<t1, t2>> \in DOMAIN lookup THEN lookup[<<t1, t2>>]
     ELSE row.city
\* a find_city that uses the reversed pair for every two teams
find_city_reversing_all(row, lookup) ==
  IF row.city # PyStr(s_Unknown) /\ notna(row.city) THEN row.city
  ELSE LET t1 == normalize_team(row.home_team)
           t2 == normalize_team(row.away_team)
       IN IF <<t1, t2>> \in DOMAIN lookup THEN lookup[<<t1, t2>>]
          ELSE IF <<t2, t1>> \in DOMAIN lookup THEN lookup[<<t2, t1>>]
          ELSE row.city
find_city(row, lookup) ==
  IF row.city # PyStr(s_Unknown) /\ notna(row.city) THEN row.city
  ELSE LET t1 == normalize_team(row.home_team)
           t2 == normalize_team(row.away_team)
       IN IF <<t1, t2>> \in DOMAIN lookup THEN lookup[<<t1, t2>>]
          ELSE IF <<t2, t1>> \in DOMAIN lookup
                  /\ sorted2(t1[2], t2[2]) # <<s_Croatia, s_Morocco>>
               THEN lookup[<<t2, t1>>]
          ELSE row.city

\* an enrichment that drops the matches whose city it could not find
enrich_2022_dropping_unknown(matches, cities) ==
  IF cities = None \/ df_empty(cities) THEN matches
  ELSE LET lookup == city_lookup(df_rows(cities))
       IN PyDf(SelectSeq([i \in 1..Len(df_rows(matches)) |->
                            [df_rows(matches)[i] EXCEPT !.city = find_city(df_rows(matches)[i], lookup)]],
                         LAMBDA r : r.city # PyStr(s_Unknown)))
enrich_2022_with_cities(matches, cities) ==
  IF cities = None \/ df_empty(cities) THEN matches
  ELSE LET lookup == city_lookup(df_rows(cities))
       IN PyDf([i \in 1..Len(df_rows(matches)) |->
                  [df_rows(matches)[i] EXCEPT !.city = find_city(df_rows(matches)[i], lookup)]])

MaxMatchRows == 2
MaxCityRows == 2

s_USA == <<"U","S","A">>
s_United_States == <<"U","n","i","t","e","d"," ","S","t","a","t","e","s">>
s_Doha == <<"D","o","h","a">>
s_Al_Khor == <<"A","l"," ","K","h","o","r">>
s_AL_RAYYAN == <<"A","L"," ","R","A","Y","Y","A","N">>
s_2022 == <<"2","0","2","2">>

\* a row of the 2022 table as transform_source3 builds it
Match2022(home, away, city) ==
  [home_team |-> PyStr(home), away_team |-> PyStr(away),
   home_result |-> PyInt(0), away_result |-> PyInt(0), result |-> PyStr(s_draw),
   date |-> PyTs(20221123), edition |-> PyStr(s_2022), city |-> city,
   round |-> PyStr(s_Group_Stage)]

Matches2022 ==
  {Match2022(pair[1], pair[2], city) :
     pair \in {<<s_Croatia, s_Morocco>>, <<s_Morocco, s_Croatia>>,
               <<s_Croatia, s_USA>>, <<s_USA, s_Croatia>>},
     city \in {PyStr(s_Unknown), PyStr(s_Doha)}}

\* rows of the reference table of cities, with the names as that file has them
CityRow(home, away, city) ==
  [home_team |-> PyStr(home), away_team |-> PyStr(away), city |-> PyStr(city)]
CityRows ==
  {CityRow(s_Croatia, s_Morocco, s_Al_Khor), CityRow(s_Morocco, s_Croatia, s_AL_RAYYAN),
   CityRow(s_United_States, s_Croatia, s_Al_Khor),
   CityRow(s_United_States, s_Croatia, s_AL_RAYYAN)}

InitCities ==
  /\ \E n \in 1..MaxMatchRows : \E rows \in [1..n -> Matches2022] : df_2022 = PyDf(rows)
  /\ \/ df_cities = None
     \/ \E n \in 0..MaxCityRows : \E rows \in [1..n -> CityRows] : df_cities = PyDf(rows)
  /\ df_2022_enriched = None
  /\ NoPipeline /\ NoResult /\ NoValidate /\ NoDates /\ NoScore /\ NoTeam /\ NoLoad
  /\ pc = "call"

EnrichCities ==
  /\ pc = "call"
  /\ df_2022 # None
  /\ df_2022_enriched' = enrich_2022_with_cities(df_2022, df_cities)
  /\ pc' = "returned"
  /\ UNCHANGED <<df_2022, df_cities, pipeline_vars, result_vars, validate_vars, dates_vars, score_vars, team_vars, load_vars>>

SpecCities == InitCities /\ [][EnrichCities]_vars

\* the reference table as the claim reads it: the rows with their names in
\* canonical form
ReferenceCities ==
  IF df_cities = None THEN <<>>
  ELSE [j \in 1..Len(df_cities[2]) |->
          [home_team |-> normalize_team(df_cities[2][j].home_team),
           away_team |-> normalize_team(df_cities[2][j].away_team),
           city |-> normalize_city(df_cities[2][j].city)]]

\* the cities the reference table ref has for the (home, away) pair of a match
CitiesOf(match, ref) ==
  {ref[j].city : j \in {j \in 1..Len(ref) : /\ ref[j].home_team = match.home_team
                                            /\ ref[j].away_team = match.away_team}}

\* C6: a match whose city is "Unknown" and whose (home, away) pair has a
\* row in the reference table gets the city of such a row; a match whose
\* city is known keeps it
C6_UnknownCityFromReference ==
  pc = "returned" =>
    LET ref == ReferenceCities
    IN /\ Len(df_2022_enriched[2]) = Len(df_2022[2])
       /\ \A i \in 1..Len(df_2022[2]) :
            /\ (df_2022[2][i].city = PyStr(s_Unknown) /\ CitiesOf(df_2022[2][i], ref) # {})
                 => df_2022_enriched[2][i].city \in CitiesOf(df_2022[2][i], ref)
            /\ (df_2022[2][i].city # PyStr(s_Unknown) /\ notna(df_2022[2][i].city))
                 => df_2022_enriched[2][i].city = df_2022[2][i].city

\* an Unknown city replaced from an alias-named reference row, next to a
\* known city that has a reference row too and is kept
C6_Witness ==
  /\ pc = "returned"
  /\ \E i \in 1..Len(df_2022[2]) :
       /\ df_2022[2][i].city = PyStr(s_Unknown)
       /\ df_2022[2][i].home_team = PyStr(s_USA)
       /\ CitiesOf(df_2022[2][i], ReferenceCities) # {}
       /\ df_2022_enriched[2][i].city = PyStr(<<"A","l"," ","R","a","y","y","a","n">>)
  /\ \E i \in 1..Len(df_2022[2]) :
       /\ df_2022[2][i].city = PyStr(s_Doha)
       /\ CitiesOf(df_2022[2][i], ReferenceCities) # {}
       /\ df_2022_enriched[2][i].city = PyStr(s_Doha)


(***************************************************************************)
(* enrich_with_historical_dates                                            *)
(***************************************************************************)
\* s.split(c)
RECURSIVE split_ch(_, _)
split_ch(s, c) ==
  LET hits == {i \in 1..Len(s) : s[i] = c}
  IN IF hits = {} THEN <<s>>
     ELSE <<SubSeq(s, 1, Min(hits) - 1)>> \o split_ch(SubSeq(s, Min(hits) + 1, Len(s)), c)

\* pd.to_datetime(s, format='%d/%m/%Y'); NaT stands for the exception
strptime_d_m_Y(s) ==
  LET tk == split_ch(s, "/")
  IN IF Len(tk) = 3 /\ isdigit(tk[1]) /\ Len(tk[1]) <= 2 /\ digits_val(tk[1]) \in 1..31
        /\ isdigit(tk[2]) /\ Len(tk[2]) <= 2 /\ digits_val(tk[2]) \in 1..12
        /\ isdigit(tk[3]) /\ Len(tk[3]) = 4
     THEN PyTs(digits_val(tk[3]) * 10000 + digits_val(tk[2]) * 100 + digits_val(tk[1]))
     ELSE NaT

\* parse_date: day/month/year first, then pd.to_datetime without a format
\* (the ISO form, with or without a midnight time), else NaT
parse_date(date_str) ==
  LET s == strip(str(date_str))
      dmy == strptime_d_m_Y(s)
      iso == to_datetime_iso(IF Len(s) = 19 /\ SubSeq(s, 11, 19) = <<" ","0","0",":","0","0",":","0","0">>
                             THEN SubSeq(s, 1, 10) ELSE s)
  IN IF dmy # NaT THEN dmy ELSE IF iso # None THEN iso ELSE NaT

\* ts.year
year_of(ts) == ts[2] \div 10000

\* df_dates_clean: the reference rows whose date parses, with home_norm and
\* away_norm
dates_clean(dates) ==
  LET parsed == [j \in 1..Len(dates) |->
                   [date_exacte |-> parse_date(dates[j].date_exacte),
                    home_norm |-> normalize_team(dates[j].home_team),
                    away_norm |-> normalize_team(dates[j].away_team)]]
  IN SelectSeq(parsed, LAMBDA r : r.date_exacte # NaT)

\* list.sort(key=lambda x: x['date']) on a list of dates
RECURSIVE sort_dates(_)
sort_dates(s) ==
  IF Len(s) = 0 THEN <<>>
  ELSE LET m == Min({s[i][2] : i \in 1..Len(s)})
           j == Min({i \in 1..Len(s) : s[i][2] = m})
       IN <<s[j]>> \o sort_dates(SubSeq(s, 1, j - 1) \o SubSeq(s, j + 1, Len(s)))

\* tuple(sorted([home, away]) + [year])
norm_key(home, away, year) == sorted2(home, away) \o <<year>>

\* date_pool: for each sorted pair and year (an int, the year of the date)
\* the reference dates in ascending order
date_pool(clean) ==
  LET keys == [j \in 1..Len(clean) |->
                 norm_key(clean[j].home_norm[2], clean[j].away_norm[2],
                          PyInt(year_of(clean[j].date_exacte)))]
  IN [k \in {keys[j] : j \in 1..Len(clean)} |->
        sort_dates(SelectSeq([j \in 1..Len(clean) |-> IF keys[j] = k THEN clean[j].date_exacte ELSE NaT],
                             LAMBDA d : d # NaT))]

\* a lookup that takes the dates of the pair from any year
date_pool_get_any_year(pool, key) ==
  LET ks == {k \in DOMAIN pool : k[1] = key[1] /\ k[2] = key[2]}
  IN IF ks = {} THEN <<>> ELSE pool[CHOOSE k \in ks : TRUE]
\* date_pool.get(key, [])
date_pool_get(pool, key) == IF key \in DOMAIN pool THEN pool[key] ELSE <<>>

\* match_counts: how many rows of editions up to 2010 each sorted pair and
\* edition (the cell as it is, a str or an int) has
match_counts(rows) ==
  LET counted == {i \in 1..Len(rows) : int_val(rows[i].edition) <= 2010}
      keys == [i \in counted |-> norm_key(strip(str(rows[i].home_team)),
                                          strip(str(rows[i].away_team)), rows[i].edition)]
  IN [k \in {keys[i] : i \in counted} |-> Cardinality({i \in counted : keys[i] = k})]

problematic_pairs(rows) ==
  LET counts == match_counts(rows) IN {k \in DOMAIN counts : counts[k] > 1}

round_order_map ==
  {<<s_Group_Stage, 1>>, <<<<"R","o","u","n","d"," ","o","f"," ","1","6">>, 2>>,
   <<<<"Q","u","a","r","t","e","r","-","f","i","n","a","l","s">>, 3>>, <<<<"S","e","m","i","-","f","i","n","a","l","s">>, 4>>,
   <<<<"T","h","i","r","d"," ","P","l","a","c","e">>, 5>>, <<s_Final, 6>>}
round_order(round) ==
  IF IsStr(round) /\ InMap(round_order_map, round[2]) THEN Lookup(round_order_map, round[2])
  ELSE 99

\* sort_values(['round_order', 'date']): rows of equal keys keep their
\* order, a missing date comes after every date
sorts_before(rows, j, i) ==
  LET date_key(k) == IF IsTs(rows[k].date) THEN <<0, rows[k].date[2]>> ELSE <<1, 0>>
  IN \/ round_order(rows[j].round) < round_order(rows[i].round)
     \/ /\ round_order(rows[j].round) = round_order(rows[i].round)
        /\ \/ date_key(j)[1] < date_key(i)[1]
           \/ date_key(j)[1] = date_key(i)[1] /\ date_key(j)[2] < date_key(i)[2]
           \/ date_key(j) = date_key(i) /\ j < i

\* the rows of a problematic pair: either orientation, the same edition cell
pair_matches(rows, key) ==
  {i \in 1..Len(rows) :
     /\ \/ rows[i].home_team = PyStr(key[1]) /\ rows[i].away_team = PyStr(key[2])
        \/ rows[i].home_team = PyStr(key[2]) /\ rows[i].away_team = PyStr(key[1])
     /\ rows[i].edition = key[3]}

\* date_assignments: the k-th row of a problematic pair in round order gets
\* the k-th date of the pool entry of (sorted pair, edition cell)
date_assignments(rows, pool) ==
  LET counts == match_counts(rows)
      rank(key, i) == 1 + Cardinality({j \in pair_matches(rows, key) : sorts_before(rows, j, i)})
      given(key) == IF Cardinality(pair_matches(rows, key)) # counts[key] THEN {}
                    ELSE {i \in pair_matches(rows, key) :
                            rank(key, i) <= Len(date_pool_get(pool, norm_key(key[1], key[2], key[3])))}
      key_of(i) == CHOOSE key \in problematic_pairs(rows) : i \in given(key)
  IN [i \in UNION {given(key) : key \in problematic_pairs(rows)} |->
        date_pool_get(pool, norm_key(key_of(i)[1], key_of(i)[2], key_of(i)[3]))[rank(key_of(i), i)]]


\* f"{home}_{away}_{year}"
track_key(home, away, year) == home \o <<"_">> \o away \o <<"_">> \o str(year)

\* the loop over the rows that got no date above, from row i on: a row of an
\* edition up to 2010 takes the first date of its pool entry (keyed by
\* int(edition)) that no earlier row of the same track_key took; used is
\* used_dates_simple as a set of <<track_key, date>>
RECURSIVE simple_assignments(_, _, _, _, _)
simple_assignments(rows, i, used, assigned, pool) ==
  IF i > Len(rows) THEN rows
  ELSE IF i \in assigned \/ ~int_ok(rows[i].edition)
       THEN simple_assignments(rows, i + 1, used, assigned, pool)
  ELSE IF int_val(rows[i].edition) > 2010
       THEN simple_assignments(rows, i + 1, used, assigned, pool)
  ELSE LET home == strip(str(rows[i].home_team))
           away == strip(str(rows[i].away_team))
           available == date_pool_get(pool, norm_key(home, away, PyInt(int_val(rows[i].edition))))
           track == track_key(home, away, rows[i].edition)
           free == {k \in 1..Len(available) : <<track, available[k]>> \notin used}
       IN IF free = {} THEN simple_assignments(rows, i + 1, used, assigned, pool)
          ELSE simple_assignments([rows EXCEPT ![i].date = available[Min(free)]], i + 1,
                                  used \cup {<<track, available[Min(free)]>>}, assigned, pool)

\* enrich_with_historical_dates: the table with its dates replaced, or the
\* exception of int(row['edition'])
enrich_with_historical_dates(matches, dates) ==
  IF dates = None \/ df_empty(dates) THEN matches
  ELSE IF \E i \in 1..Len(df_rows(matches)) : ~int_ok(df_rows(matches)[i].edition)
       THEN Raise("ValueError")
  ELSE LET rows == df_rows(matches)
           pool == date_pool(dates_clean(df_rows(dates)))
           assignments == date_assignments(rows, pool)
           df_main == [i \in 1..Len(rows) |->
                         IF i \in DOMAIN assignments
                         THEN [rows[i] EXCEPT !.date = assignments[i]] ELSE rows[i]]
       IN PyDf(simple_assignments(df_main, 1, {}, DOMAIN assignments, pool))

MaxDateMatches == 3
MaxDates == 3

s_Semi_finals == <<"S","e","m","i","-","f","i","n","a","l","s">>
s_FRANCE == <<"F","R","A","N","C","E">>
s_1998 == <<"1","9","9","8">>
s_10_06_1998 == <<"1","0","/","0","6","/","1","9","9","8">>
s_08_07_1998 == <<"0","8","/","0","7","/","1","9","9","8">>
s_12_07_1998 == <<"1","2","/","0","7","/","1","9","9","8">>
s_Paris == <<"P","a","r","i","s">>

\* a row of the 1930-2010 table as transform_source1 builds it: the edition
\* a decimal str, the date the first of July of the edition
Match1998(home, away, round) ==
  [home_team |-> PyStr(home), away_team |-> PyStr(away),
   home_result |-> PyInt(1), away_result |-> PyInt(1), result |-> PyStr(s_draw),
   date |-> PyTs(19980701), round |-> PyStr(round), city |-> PyStr(s_Paris),
   edition |-> PyStr(s_1998)]

Matches1998 ==
  {Match1998(pair[1], pair[2], round) :
     pair \in {<<s_Brazil, s_France>>, <<s_France, s_Brazil>>},
     round \in {s_Group_Stage, s_Semi_finals, s_Final}}

\* the same table with its edition column as int, as a caller may pass it
edition_as_int(rows) ==
  [i \in 1..Len(rows) |-> [rows[i] EXCEPT !.edition = PyInt(int_val(rows[i].edition))]]

\* rows of the reference table of dates, with the names as that file has them
DateRows ==
  {[home_team |-> PyStr(s_Brazil), away_team |-> PyStr(s_FRANCE), date_exacte |-> PyStr(d)] :
     d \in {s_10_06_1998, s_08_07_1998, s_12_07_1998}}

InitDates ==
  /\ \E n \in 1..MaxDateMatches : \E rows \in [1..n -> Matches1998] :
       \/ df_matches = PyDf(rows)
       \/ df_matches = PyDf(edition_as_int(rows))
  /\ \/ df_dates = None
     \/ \E n \in 0..MaxDates : \E rows \in [1..n -> DateRows] : df_dates = PyDf(rows)
  /\ df_enriched = None
  /\ NoPipeline /\ NoResult /\ NoValidate /\ NoCities /\ NoScore /\ NoTeam /\ NoLoad
  /\ pc = "call"

EnrichDates ==
  /\ pc = "call"
  /\ df_matches # None
  /\ df_enriched' = enrich_with_historical_dates(df_matches, df_dates)
  /\ pc' = "returned"
  /\ UNCHANGED <<df_matches, df_dates, pipeline_vars, result_vars, validate_vars, cities_vars, score_vars, team_vars, load_vars>>

SpecDates == InitDates /\ [][EnrichDates]_vars

\* the dates the reference table has for the two teams and the edition of a
\* match, in ascending order
ReferenceDates(match) ==
  IF df_dates = None THEN <<>>
  ELSE LET clean == dates_clean(df_dates[2])
           mine == {clean[j].date_exacte[2] : j \in {j \in 1..Len(clean) :
                      /\ {clean[j].home_norm, clean[j].away_norm}
                           = {match.home_team, match.away_team}
                      /\ year_of(clean[j].date_exacte) = int_val(match.edition)}}
       IN sort_dates([k \in 1..Cardinality(mine) |->
                        PyTs(CHOOSE d \in mine : Cardinality({e \in mine : e < d}) = k - 1)])

\* three matches of the same two teams in one edition up to 2010, listed
\* Group Stage, Semi-finals, Final with one placeholder date, and three
\* distinct reference dates for them
C5_ThreeMatches ==
  /\ Len(df_matches[2]) = 3
  /\ df_matches[2][1].round = PyStr(s_Group_Stage)
  /\ df_matches[2][2].round = PyStr(s_Semi_finals)
  /\ df_matches[2][3].round = PyStr(s_Final)
  /\ \A i \in 1..3 :
       /\ {df_matches[2][i].home_team, df_matches[2][i].away_team}
            = {df_matches[2][1].home_team, df_matches[2][1].away_team}
       /\ df_matches[2][i].edition = df_matches[2][1].edition
       /\ df_matches[2][i].date = df_matches[2][1].date
  /\ df_matches[2][1].home_team # df_matches[2][1].away_team
  /\ int_val(df_matches[2][1].edition) <= 2010
  /\ Len(ReferenceDates(df_matches[2][1])) = 3

\* C5: of three such matches the Group Stage match gets the earliest of the
\* three reference dates, the Semi-finals match the middle one and the
\* Final the latest
C5_RoundsGetDatesInOrder ==
  (pc = "returned" /\ C5_ThreeMatches) =>
    /\ IsDf(df_enriched)
    /\ Len(df_enriched[2]) = 3
    /\ \A i \in 1..3 : df_enriched[2][i].date = ReferenceDates(df_matches[2][1])[i]

\* the matches given are one group: the same two teams, one edition up to
\* 2010 held as a decimal str, and more than one match
OneGroup ==
  /\ Len(df_matches[2]) > 1
  /\ \A i \in 1..Len(df_matches[2]) :
       /\ {df_matches[2][i].home_team, df_matches[2][i].away_team}
            = {df_matches[2][1].home_team, df_matches[2][1].away_team}
       /\ df_matches[2][i].edition = df_matches[2][1].edition
       /\ IsStr(df_matches[2][i].edition)
  /\ int_val(df_matches[2][1].edition) <= 2010

\* the place of match i of the group in round-precedence order
RoundRank(i) ==
  1 + Cardinality({j \in 1..Len(df_matches[2]) :
                     round_order(df_matches[2][j].round) < round_order(df_matches[2][i].round)})

\* C18: whatever the order of the input rows, the i-th match of a group in
\* round-precedence order gets the i-th earliest candidate date (groups whose
\* matches have pairwise different rounds, editions as decimal str)
C18_RoundOrderWhateverInputOrder ==
  (/\ pc = "returned"
   /\ OneGroup
   /\ \A i, j \in 1..Len(df_matches[2]) :
        i # j => df_matches[2][i].round # df_matches[2][j].round
   /\ df_dates # None /\ ~df_empty(df_dates)) =>
    /\ IsDf(df_enriched)
    /\ \A i \in 1..Len(df_matches[2]) :
         RoundRank(i) <= Len(ReferenceDates(df_matches[2][1])) =>
           df_enriched[2][i].date = ReferenceDates(df_matches[2][1])[RoundRank(i)]

\* the matches whose date the call replaced
Updated == {i \in 1..Len(df_matches[2]) : df_enriched[2][i].date # df_matches[2][i].date}

\* C19: a group of k matches with only c < k candidate dates has exactly c
\* matches updated, each with a different candidate date, and the other
\* k - c matches keep their placeholder date
C19_FewerDatesThanMatches ==
  (/\ pc = "returned"
   /\ OneGroup
   /\ df_dates # None /\ ~df_empty(df_dates)
   /\ Len(ReferenceDates(df_matches[2][1])) < Len(df_matches[2])) =>
    /\ IsDf(df_enriched)
    /\ Cardinality(Updated) = Len(ReferenceDates(df_matches[2][1]))
    /\ \A i \in Updated :
         /\ \E k \in 1..Len(ReferenceDates(df_matches[2][1])) :
              df_enriched[2][i].date = ReferenceDates(df_matches[2][1])[k]
         /\ \A j \in Updated : j # i => df_enriched[2][j].date # df_enriched[2][i].date

\* C28: the k matches of a group for which the reference table has at least
\* k distinct dates carry k pairwise distinct dates after the call, also
\* when they list the two teams in opposite order
C28_GroupDatesDistinct ==
  (/\ pc = "returned"
   /\ OneGroup
   /\ df_dates # None /\ ~df_empty(df_dates)
   /\ Len(ReferenceDates(df_matches[2][1])) >= Len(df_matches[2])) =>
    /\ IsDf(df_enriched)
    /\ \A i, j \in 1..Len(df_matches[2]) :
         i # j => df_enriched[2][i].date # df_enriched[2][j].date

(***************************************************************************)
(* enrich_with_historical_dates on editions and pairs the reference table  *)
(* may not cover                                                           *)
(***************************************************************************)
MaxScopeMatches == 2
MaxScopeDates == 2

s_2014 == <<"2","0","1","4">>
s_13_07_2014 == <<"1","3","/","0","7","/","2","0","1","4">>
s_30_06_2002 == <<"3","0","/","0","6","/","2","0","0","2">>

\* a row of the consolidated table: the edition a decimal str, the date the
\* first of July of the edition
MatchOf(home, away, edition) ==
  [home_team |-> PyStr(home), away_team |-> PyStr(away),
   home_result |-> PyInt(1), away_result |-> PyInt(1), result |-> PyStr(s_draw),
   date |-> PyTs(digits_val(edition) * 10000 + 701), round |-> PyStr(s_Final),
   city |-> PyStr(s_Paris), edition |-> PyStr(edition)]

ScopeMatches ==
  {MatchOf(s_Brazil, s_France, s_1998), MatchOf(s_France, s_Brazil, s_1998),
   MatchOf(s_Brazil, s_France, s_2014), MatchOf(s_Croatia, s_Morocco, s_1998)}

\* reference rows for Brazil and France in 1998, 2002 and 2014
ScopeDateRows ==
  {[home_team |-> PyStr(s_Brazil), away_team |-> PyStr(s_FRANCE), date_exacte |-> PyStr(s_12_07_1998)],
   [home_team |-> PyStr(s_Brazil), away_team |-> PyStr(s_France), date_exacte |-> PyStr(s_30_06_2002)],
   [home_team |-> PyStr(s_Brazil), away_team |-> PyStr(s_France), date_exacte |-> PyStr(s_13_07_2014)]}

InitDatesScope ==
  /\ \E n \in 1..MaxScopeMatches : \E rows \in [1..n -> ScopeMatches] :
       \/ df_matches = PyDf(rows)
       \/ df_matches = PyDf(edition_as_int(rows))
  /\ \/ df_dates = None
     \/ \E n \in 0..MaxScopeDates : \E rows \in [1..n -> ScopeDateRows] : df_dates = PyDf(rows)
  /\ df_enriched = None
  /\ NoPipeline /\ NoResult /\ NoValidate /\ NoCities /\ NoScore /\ NoTeam /\ NoLoad
  /\ pc = "call"

SpecDatesScope == InitDatesScope /\ [][EnrichDates]_vars

\* C20: a match of an edition after 2010, or of two teams for which the
\* reference table holds no date in the year of the edition, keeps its date;
\* with no reference table or an empty one the matches come back unchanged
C20_DateKeptOutsideReference ==
  pc = "returned" =>
    /\ (df_dates = None \/ df_empty(df_dates)) => df_enriched = df_matches
    /\ IsDf(df_enriched)
    /\ Len(df_enriched[2]) = Len(df_matches[2])
    /\ \A i \in 1..Len(df_matches[2]) :
         (int_val(df_matches[2][i].edition) > 2010 \/ ReferenceDates(df_matches[2][i]) = <<>>)
           => df_enriched[2][i].date = df_matches[2][i].date

\* a call that replaced the date of a 1998 match and kept the date of a 2014
\* match for which the reference table has a date in 2014
C20_Witness ==
  /\ pc = "returned"
  /\ IsDf(df_enriched)
  /\ \E i, j \in 1..Len(df_matches[2]) :
       /\ int_val(df_matches[2][i].edition) > 2010
       /\ ReferenceDates(df_matches[2][i]) # <<>>
       /\ df_enriched[2][i].date = df_matches[2][i].date
       /\ df_enriched[2][j].date # df_matches[2][j].date

(***************************************************************************)
(* the two enrichment passes                                               *)
(***************************************************************************)
InitEnrich == InitDatesScope \/ InitCities

NextEnrich == EnrichDates \/ EnrichCities

SpecEnrich == InitEnrich /\ [][NextEnrich]_vars

\* table after has the rows of table before in the same order, each with
\* the same columns and the same cells except in column target
OnlyChanges(before, after, target) ==
  /\ IsDf(after)
  /\ Len(after[2]) = Len(before[2])
  /\ \A i \in 1..Len(before[2]) :
       /\ DOMAIN after[2][i] = DOMAIN before[2][i]
       /\ \A c \in DOMAIN before[2][i] \ {target} : after[2][i][c] = before[2][i][c]

\* C21: an enrichment pass returns the rows of its input in the same order,
\* none added or removed, and changes no field but its target: date for
\* enrich_with_historical_dates, city for enrich_2022_with_cities
C21_EnrichmentChangesOnlyTarget ==
  pc = "returned" =>
    /\ df_matches # None => OnlyChanges(df_matches, df_enriched, "date")
    /\ df_2022 # None => OnlyChanges(df_2022, df_2022_enriched, "city")

\* a call of enrich_2022_with_cities on two matches that replaced the city
\* of one and found no city for the other
C21_Witness ==
  /\ pc = "returned"
  /\ df_2022 # None
  /\ Len(df_2022[2]) = 2
  /\ \E i, j \in 1..2 :
       /\ df_2022[2][i].city = PyStr(s_Unknown)
       /\ df_2022_enriched[2][i].city # PyStr(s_Unknown)
       /\ df_2022[2][j].city = PyStr(s_Unknown)
       /\ df_2022_enriched[2][j].city = PyStr(s_Unknown)

(***************************************************************************)
(* enrich_2022_with_cities on matches without a city                       *)
(***************************************************************************)
\* matches whose city is "Unknown" or missing
MatchesNoCity ==
  {Match2022(pair[1], pair[2], city) :
     pair \in {<<s_Croatia, s_Morocco>>, <<s_Morocco, s_Croatia>>,
               <<s_Croatia, s_USA>>, <<s_USA, s_Croatia>>},
     city \in {PyStr(s_Unknown), NaN}}

InitCitiesReversed ==
  /\ \E n \in 1..MaxMatchRows : \E rows \in [1..n -> MatchesNoCity] : df_2022 = PyDf(rows)
  /\ \/ df_cities = None
     \/ \E n \in 0..MaxCityRows : \E rows \in [1..n -> CityRows] : df_cities = PyDf(rows)
  /\ df_2022_enriched = None
  /\ NoPipeline /\ NoResult /\ NoValidate /\ NoDates /\ NoScore /\ NoTeam /\ NoLoad
  /\ pc = "call"

SpecCitiesReversed == InitCitiesReversed /\ [][EnrichCities]_vars

\* a match with its teams in canonical form, and with them exchanged
Canonical(match) == [home_team |-> normalize_team(match.home_team),
                     away_team |-> normalize_team(match.away_team)]
Reversed(match) == [home_team |-> normalize_team(match.away_team),
                    away_team |-> normalize_team(match.home_team)]
IsCroatiaMorocco(match) ==
  {normalize_team(match.home_team), normalize_team(match.away_team)}
    = {PyStr(s_Croatia), PyStr(s_Morocco)}

\* C22: a match without a city whose (home, away) pair has no reference row
\* gets the city of a row of the reversed pair when there is one, unless the
\* two teams are Croatia and Morocco: then, and when there is no reversed
\* row, the city stays as it was
C22_ReversedPairExceptCroatiaMorocco ==
  pc = "returned" =>
    LET ref == ReferenceCities
    IN \A i \in 1..Len(df_2022[2]) :
         CitiesOf(Canonical(df_2022[2][i]), ref) = {} =>
           IF CitiesOf(Reversed(df_2022[2][i]), ref) # {} /\ ~IsCroatiaMorocco(df_2022[2][i])
           THEN df_2022_enriched[2][i].city \in CitiesOf(Reversed(df_2022[2][i]), ref)
           ELSE df_2022_enriched[2][i].city = df_2022[2][i].city

\* a Morocco v Croatia match that kept its missing city although the
\* reference has a Croatia v Morocco row, next to a Croatia v USA match that
\* got the city of the USA v Croatia row
C22_Witness ==
  /\ pc = "returned"
  /\ df_cities # None
  /\ \E i, j \in 1..Len(df_2022[2]) :
       /\ IsCroatiaMorocco(df_2022[2][i])
       /\ CitiesOf(Canonical(df_2022[2][i]), ReferenceCities) = {}
       /\ CitiesOf(Reversed(df_2022[2][i]), ReferenceCities) # {}
       /\ df_2022[2][i].city = NaN
       /\ df_2022_enriched[2][i].city = NaN
       /\ ~IsCroatiaMorocco(df_2022[2][j])
       /\ CitiesOf(Canonical(df_2022[2][j]), ReferenceCities) = {}
       /\ df_2022_enriched[2][j].city \in CitiesOf(Reversed(df_2022[2][j]), ReferenceCities)


(***************************************************************************)
(* parse_score                                                             *)
(***************************************************************************)
\* a Python tuple and a Python list of cell values
PyTuple(items) == <<"tuple", items>>
PyList(items) == <<"list", items>>
IsTuple(v) == Len(v) = 2 /\ v[1] = "tuple"
IsList(v) == Len(v) = 2 /\ v[1] = "list"

\* the length of the run of digits (of non-digits) that s has from position i on
RECURSIVE run_length(_, _, _)
run_length(s, i, digits) ==
  IF i > Len(s) \/ IsDigitCh(s[i]) # digits THEN 0 ELSE 1 + run_length(s, i + 1, digits)

\* re.search(r'^(\d+)[^\d]+(\d+)', s): groups 1 and 2, <<>> when s does not match
score_regex_swapped(s) ==
  LET n1 == run_length(s, 1, TRUE)
      n2 == run_length(s, n1 + 1, FALSE)
      n3 == run_length(s, n1 + n2 + 1, TRUE)
  IN IF n1 > 0 /\ n2 > 0 /\ n3 > 0
     THEN <<SubSeq(s, n1 + n2 + 1, n1 + n2 + n3), SubSeq(s, 1, n1)>> ELSE <<>>
score_regex(s) ==
  LET n1 == run_length(s, 1, TRUE)
      n2 == run_length(s, n1 + 1, FALSE)
      n3 == run_length(s, n1 + n2 + 1, TRUE)
  IN IF n1 > 0 /\ n2 > 0 /\ n3 > 0
     THEN <<SubSeq(s, 1, n1), SubSeq(s, n1 + n2 + 1, n1 + n2 + n3)>> ELSE <<>>

\* bool(pd.isna(score_str)) in `if pd.isna(score_str) or ...`: pd.isna of a
\* list is an array, whose truth value is an error when it has two elements
\* or more; pd.isna of a tuple is False
isna_raises(v) == IsList(v) /\ Len(v[2]) > 1
isna_truth(v) == IF IsList(v) THEN Len(v[2]) = 1 /\ isna(v[2][1])
                 ELSE IF IsTuple(v) THEN FALSE ELSE isna(v)

\* parse_score: the pair (home, away), (None, None) when there is none, or
\* the exception of the test on pd.isna, which is outside the try
parse_score(v) ==
  IF isna_raises(v) THEN Raise("ValueError")
  ELSE IF isna_truth(v) THEN <<None, None>>
  ELSE IF (IsTuple(v) \/ IsList(v))
       THEN IF Len(v[2]) = 2 /\ int_ok(v[2][1]) /\ int_ok(v[2][2])
            THEN <<PyInt(int_val(v[2][1])), PyInt(int_val(v[2][2]))>>
            ELSE <<None, None>>
  ELSE IF strip(str(v)) = <<>> THEN <<None, None>>
  ELSE LET groups == score_regex(strip(str(v)))
       IN IF groups = <<>> THEN <<None, None>>
          ELSE <<PyInt(digits_val(groups[1])), PyInt(digits_val(groups[2]))>>

MaxScore == 10

ScoreSeparators == {<<"-">>, <<":">>, <<" ","-"," ">>}
ScoreSuffixes == {<<>>, <<" ","(","a",".","e",".","t",".",")">>, <<" ","(","4","-","2"," ","p","e","n",".",")">>}

\* the well-formed score strings, by home score, away score, separator and
\* what follows the pair
WellFormedScores ==
  [x \in (0..MaxScore) \X (0..MaxScore) \X ScoreSeparators \X ScoreSuffixes |->
     str_int(x[1]) \o x[3] \o str_int(x[2]) \o x[4]]

\* what else a score cell holds: missing values, blank and unparsable text,
\* a number, and scores that are structured already
OtherScores ==
  {None, NaN, PyStr(<<>>), PyStr(<<" "," ">>), PyStr(<<"a","b","a","n","d","o","n","e","d">>),
   PyStr(<<"-","1","-","2">>), PyStr(<<"2","-">>), PyInt(3),
   PyTuple(<<PyInt(2), PyInt(1)>>), PyTuple(<<PyStr(<<"2">>), PyStr(<<"x">>)>>),
   PyTuple(<<PyInt(2), PyInt(1), PyInt(0)>>), PyTuple(<<PyInt(2), None>>),
   PyList(<<PyInt(2), PyInt(1)>>), PyList(<<PyInt(2)>>), PyList(<<None>>)}

InitScore ==
  /\ score_str \in {PyStr(WellFormedScores[x]) : x \in DOMAIN WellFormedScores} \cup OtherScores
  /\ score = None
  /\ NoPipeline /\ NoResult /\ NoValidate /\ NoCities /\ NoDates /\ NoTeam /\ NoLoad
  /\ pc = "call"

ParseScore ==
  /\ pc = "call"
  /\ score' = parse_score(score_str)
  /\ pc' = "returned"
  /\ UNCHANGED <<score_str, pipeline_vars, result_vars, validate_vars, cities_vars,
                 dates_vars, team_vars, load_vars>>

SpecScore == InitScore /\ [][ParseScore]_vars

\* C11: parse_score of the text "h-a", "h:a" or "h - a", with or without
\* more text after the pair, is (h, a) for all integers h, a >= 0
C11_WellFormedScoreRoundTrips ==
  pc = "returned" =>
    \A x \in DOMAIN WellFormedScores :
      score_str = PyStr(WellFormedScores[x]) => score = <<PyInt(x[1]), PyInt(x[2])>>

\* a two-digit home score with an extra-time note after the pair
C11_Witness ==
  /\ pc = "returned"
  /\ score_str = PyStr(<<"1","0"," ","-"," ","2"," ","(","a",".","e",".","t",".",")">>)
  /\ score = <<PyInt(10), PyInt(2)>>

\* C12: parse_score raises nothing; it returns (None, None) for a missing
\* value, an empty text and an unparsable text, and the two integers of a
\* tuple or a list of two integers
C12_ParseScoreNeverRaises ==
  pc = "returned" =>
    /\ score # Raise("ValueError")
    /\ score_str \in {None, NaN, PyStr(<<>>), PyStr(<<"a","b","a","n","d","o","n","e","d">>)}
         => score = <<None, None>>
    /\ score_str \in {PyTuple(<<PyInt(2), PyInt(1)>>), PyList(<<PyInt(2), PyInt(1)>>)}
         => score = <<PyInt(2), PyInt(1)>>


(***************************************************************************)
(* normalize_team on its own, and on its own result                        *)
(***************************************************************************)
\* the keys of the alias table
TeamAliases == {PyStr(pair[1]) : pair \in TEAMS_MAPPING}

\* what else a team cell holds: missing values, numbers, blank text, a note
\* in parentheses only, names in other letter cases or mis-encoded
OtherTeams ==
  {None, NaN, PyInt(12), PyStr(<<"1","2">>), PyStr(<<>>), PyStr(<<" "," ">>),
   PyStr(<<"(","h","o","s","t","s",")">>), PyStr(<<"\"","\"">>), PyStr(s_Brazil), PyStr(<<"u","s","a">>),
   PyStr(<<"I","t","a","l","y"," ","(","a",".","e",".","t",".",")">>), PyStr(<<"C","_","t","e"," ","d","'","I","v","o","i","r","e">>),
   PyStr(<<"T","r","i","n","i","d","a","d"," ","&"," ","T","o","b","a","g","o">>)}

InitTeam ==
  /\ team_name \in TeamAliases \cup OtherTeams
  /\ team = <<>>
  /\ NoPipeline /\ NoResult /\ NoValidate /\ NoCities /\ NoDates /\ NoScore /\ NoLoad
  /\ pc = "call"

\* a transformer normalizes the raw name
NormalizeTeam ==
  /\ pc = "call"
  /\ team' = <<normalize_team(team_name)>>
  /\ pc' = "returned"
  /\ UNCHANGED <<team_name, pipeline_vars, result_vars, validate_vars, cities_vars,
                 dates_vars, score_vars, load_vars>>

\* an enrichment normalizes the canonical name once more
NormalizeTeamAgain ==
  /\ pc = "returned"
  /\ team' = team \o <<normalize_team(team[1])>>
  /\ pc' = "again"
  /\ UNCHANGED <<team_name, pipeline_vars, result_vars, validate_vars, cities_vars,
                 dates_vars, score_vars, load_vars>>

NextTeam == NormalizeTeam \/ NormalizeTeamAgain
SpecTeam == InitTeam /\ [][NextTeam]_vars

\* C13: for every key x of the alias table,
\* normalize_team(normalize_team(x)) = normalize_team(x)
C13_NormalizeTeamIdempotent ==
  (pc = "again" /\ team_name \in TeamAliases) => team[2] = team[1]

\* C14: normalize_team returns a non-empty string for every input, "Unknown"
\* for a missing and for a purely numeric value
C14_TeamNeverEmpty ==
  pc = "returned" =>
    /\ IsStr(team[1]) /\ Len(team[1][2]) > 0
    /\ team_name \in {None, NaN, PyInt(12), PyStr(<<"1","2">>)} => team[1] = PyStr(s_Unknown)


(***************************************************************************)
(* transform_source2 on a table that may lack columns                      *)
(***************************************************************************)
canonical_cols == {"home_team", "away_team", "home_result", "away_result", "result",
                   "date", "round", "city", "edition"}

\* transform_source2 on a table that has rows: the columns the source lacks
\* get their default, except the goal columns (df_clean.get gives None and
\* pd.to_numeric(None) a float, which has no fillna) and the team columns
\* (row['home_team'] does not exist, 'Away Team Name' is read unguarded)
transform_source2_columns(df_raw) ==
  LET cols == DOMAIN df_rows(df_raw)[1]
      clean(r) ==
        LET hr == to_numeric_fillna0_int(r.Home_Team_Goals)
            ar == to_numeric_fillna0_int(r.Away_Team_Goals)
            ht == normalize_team(r.Home_Team_Name)
            at == normalize_team(r.Away_Team_Name)
        IN [home_team |-> ht, away_team |-> at, home_result |-> hr, away_result |-> ar,
            result |-> compute_result(hr, ar, ht, at),
            date |-> IF "Datetime" \in cols THEN parse_datetime(r.Datetime) ELSE PyTs(20140701),
            round |-> IF "Stage" \in cols THEN normalize_round(r.Stage) ELSE PyStr(s_Group_Stage),
            city |-> IF "City" \in cols THEN normalize_city(r.City) ELSE PyStr(s_Unknown),
            edition |-> IF "Year" \in cols THEN PyStr(str(r.Year)) ELSE PyStr(<<"2","0","1","4">>)]
  IN IF "Home_Team_Goals" \notin cols \/ "Away_Team_Goals" \notin cols THEN Raise("AttributeError")
     ELSE IF "Home_Team_Name" \notin cols \/ "Away_Team_Name" \notin cols THEN Raise("KeyError")
     ELSE PyDf([i \in 1..Len(df_rows(df_raw)) |-> clean(df_rows(df_raw)[i])])

\* goal cells of a raw source: integers, one of them negative, a missing
\* value, and numbers and other text as str
RawGoals == {PyInt(0 - 1), PyInt(0), PyInt(2), NaN, PyStr(<<"3">>), PyStr(<<"x">>)}

\* one-row tables of the 2014 source, whole or without one of their columns
RawTables2014 ==
  LET whole == {[Raw2014(s_France, 0, s_Final, PyStr(s_13_Jul_2014), PyInt(2014))
                   EXCEPT !.Home_Team_Goals = h, !.Away_Team_Goals = a] :
                  h \in RawGoals, a \in RawGoals}
  IN {PyDf(<<r>>) : r \in whole}
     \cup {PyDf(<<[c \in DOMAIN r \ {col} |-> r[c]]>>) :
             r \in whole, col \in DOMAIN Raw2014(s_France, 0, s_Final, None, None)}

InitSource2 ==
  /\ \E t \in RawTables2014 : sources = <<t>>
  /\ dfs_list = <<>>
  /\ final_df = None
  /\ final_index = <<>>
  /\ NoResult /\ NoValidate /\ NoCities /\ NoDates /\ NoScore /\ NoTeam /\ NoLoad
  /\ pc = "extracted"

TransformSource2 ==
  /\ pc = "extracted"
  /\ dfs_list' = <<transform_source2_columns(sources[1])>>
  /\ pc' = "transformed"
  /\ UNCHANGED <<sources, final_df, final_index, result_vars, validate_vars, cities_vars,
                 dates_vars, score_vars, team_vars, load_vars>>

SpecSource2 == InitSource2 /\ [][TransformSource2]_vars

\* C15: in every record a transformer produces, home_result and away_result
\* are absent or an integer >= 0, whatever the raw goal cells hold
C15_ResultsNotNegative ==
  (pc = "transformed" /\ IsDf(dfs_list[1])) =>
    \A i \in 1..Len(dfs_list[1][2]) :
      /\ isna(dfs_list[1][2][i].home_result)
           \/ (IsInt(dfs_list[1][2][i].home_result) /\ dfs_list[1][2][i].home_result[2] >= 0)
      /\ isna(dfs_list[1][2][i].away_result)
           \/ (IsInt(dfs_list[1][2][i].away_result) /\ dfs_list[1][2][i].away_result[2] >= 0)

\* C16: a transformer whose input lacks a column it requires returns an empty
\* table and raises nothing; otherwise it returns a table with the
\* canonical columns
C16_EmptyWhenColumnMissing ==
  pc = "transformed" =>
    IF {"Home_Team_Name", "Away_Team_Name", "Home_Team_Goals", "Away_Team_Goals"}
         \subseteq DOMAIN sources[1][2][1]
    THEN /\ IsDf(dfs_list[1])
         /\ \A i \in 1..Len(dfs_list[1][2]) : DOMAIN dfs_list[1][2][i] = canonical_cols
    ELSE dfs_list[1] = PyDf(<<>>)


(***************************************************************************)
(* WorldCupLoader: connect, create_schema, load_data                        *)
(***************************************************************************)
IsRaise(v) == Len(v) = 2 /\ v[1] = "raise"

\* what sqlite3.connect returns
Connection == <<"sqlite3.Connection">>

s_invalid_date == <<"i","n","v","a","l","i","d","_","d","a","t","e">>

\* Series.dt exists only for a column of datetime dtype: every cell a
\* Timestamp or NaT
has_dt(frame) == \A i \in 1..Len(df_rows(frame)) :
                   IsTs(df_rows(frame)[i].date) \/ df_rows(frame)[i].date = NaT

\* Timestamp.strftime('%Y-%m-%d'); NaT gives a missing value
strftime_Y_m_d(ts) ==
  IF IsTs(ts) THEN PyStr(nat_digits(ts[2] \div 10000) \o <<"-">> \o pad2((ts[2] \div 100) % 100)
                         \o <<"-">> \o pad2(ts[2] % 100))
  ELSE NaN

\* the constraints of the table: id_match is the primary key, every column
\* but result is NOT NULL (a missing value is sent as NULL)
not_null_cols == {"home_team", "away_team", "home_result", "away_result", "date", "round",
                  "city", "edition"}
violates_constraint(table, row) ==
  \/ \E r \in table : r.id_match = row.id_match
  \/ \E c \in not_null_cols : isna(row[c])

\* the INSERTs of to_sql, row after row in the open transaction: the rows
\* the transaction holds when it ends, and the error that ended it
RECURSIVE executemany(_, _)
executemany(table, rows) ==
  IF rows = <<>> THEN [table |-> table, error |-> None]
  ELSE IF violates_constraint(table, Head(rows))
       THEN [table |-> table, error |-> Raise("IntegrityError")]
       ELSE executemany(table \cup {Head(rows)}, Tail(rows))

\* a rollback that keeps the rows inserted before the error
rollback_keeps_inserted(committed, pending) == pending
\* conn.rollback(): the table is back to its committed rows
rollback(committed, pending) == committed

\* load_data: the table afterwards and how the call ended
load_data(con, committed, frame) ==
  IF con = None THEN [table |-> committed, outcome |-> Raise("AttributeError")]
  ELSE IF ~has_dt(frame)
       THEN [table |-> rollback(committed, committed), outcome |-> Raise("AttributeError")]
  ELSE LET df_load == [i \in 1..Len(df_rows(frame)) |->
                         [df_rows(frame)[i] EXCEPT !.date = strftime_Y_m_d(@)]]
           ins == executemany(committed, df_load)
       IN IF ins.error = None THEN [table |-> ins.table, outcome |-> None]
          ELSE [table |-> rollback(committed, ins.table), outcome |-> ins.error]

MaxId == 2
MaxLoadRows == 2

\* a row of the consolidated table
LoadRow(id, date) ==
  [id_match |-> PyInt(id), home_team |-> PyStr(s_Brazil), away_team |-> PyStr(s_France),
   home_result |-> PyInt(2), away_result |-> PyInt(1), result |-> PyStr(s_Brazil),
   date |-> date, round |-> PyStr(s_Final), city |-> PyStr(s_Rio),
   edition |-> PyStr(<<"2","0","1","4">>)]

\* tables of up to MaxLoadRows rows with consecutive id_match, all dated or
\* with one cell of the date column NaT or text
LoadFrames ==
  {PyDf([i \in 1..n |-> LoadRow(first + i - 1, IF i = bad[1] THEN bad[2] ELSE PyTs(20140713))]) :
     first \in 1..MaxId, n \in 1..MaxLoadRows,
     bad \in (0..MaxLoadRows) \X {NaT, PyStr(s_invalid_date)}}

InitLoad ==
  /\ NoPipeline /\ NoResult /\ NoValidate /\ NoCities /\ NoDates /\ NoScore /\ NoTeam
  /\ conn = None
  /\ world_cup_matches = {}
  /\ df_to_load = None
  /\ load_outcome = None
  /\ pc = "constructed"

Connect ==
  /\ pc = "constructed"
  /\ conn' = Connection
  /\ pc' = "connected"
  /\ UNCHANGED <<world_cup_matches, df_to_load, load_outcome>>
  /\ UNCHANGED <<pipeline_vars, result_vars, validate_vars, cities_vars, dates_vars,
                 score_vars, team_vars>>

\* create_schema drops the table and creates it again, empty
CreateSchema ==
  /\ pc \in {"connected", "ready"}
  /\ world_cup_matches' = {}
  /\ df_to_load' = None
  /\ load_outcome' = None
  /\ pc' = "ready"
  /\ UNCHANGED conn
  /\ UNCHANGED <<pipeline_vars, result_vars, validate_vars, cities_vars, dates_vars,
                 score_vars, team_vars>>

\* load_data, called before connect or once the schema exists
LoadData ==
  /\ pc \in {"constructed", "ready"}
  /\ \E frame \in LoadFrames :
       /\ df_to_load' = frame
       /\ world_cup_matches' = load_data(conn, world_cup_matches, frame).table
       /\ load_outcome' = load_data(conn, world_cup_matches, frame).outcome
  /\ UNCHANGED <<conn, pc>>
  /\ UNCHANGED <<pipeline_vars, result_vars, validate_vars, cities_vars, dates_vars,
                 score_vars, team_vars>>

NextLoad == Connect \/ CreateSchema \/ LoadData

SpecLoad == InitLoad /\ [][NextLoad]_vars

\* C17: load_data is all-or-nothing: when it raises, world_cup_matches holds
\* exactly the rows it held before the call; when it returns, the table
\* holds those rows and every row of the argument
C17_LoadAllOrNothing ==
  [][/\ IsRaise(load_outcome') => world_cup_matches' = world_cup_matches
     /\ (df_to_load' # None /\ load_outcome' = None) =>
          /\ world_cup_matches \subseteq world_cup_matches'
          /\ Cardinality(world_cup_matches') =
               Cardinality(world_cup_matches) + Len(df_to_load'[2])]_load_vars

\* a load whose first row could be inserted and whose second row the table
\* refused, after an earlier load was committed
C17_Witness ==
  /\ load_outcome = Raise("IntegrityError")
  /\ world_cup_matches # {}
  /\ Len(df_to_load[2]) = 2
  /\ ~violates_constraint(world_cup_matches,
                          [df_to_load[2][1] EXCEPT !.date = strftime_Y_m_d(@)])


(***************************************************************************)
(* transform_source4: the JSON tree of the 2018 source                     *)
(***************************************************************************)
TEAMS_MAPPING_2018 ==
  {<<1, <<"R","u","s","s","i","a">>>>,
   <<2, <<"S","a","u","d","i"," ","A","r","a","b","i","a">>>>,
   <<3, <<"E","g","y","p","t">>>>,
   <<4, <<"U","r","u","g","u","a","y">>>>,
   <<5, <<"P","o","r","t","u","g","a","l">>>>,
   <<6, <<"S","p","a","i","n">>>>,
   <<7, <<"M","o","r","o","c","c","o">>>>,
   <<8, <<"I","r","a","n">>>>,
   <<9, <<"F","r","a","n","c","e">>>>,
   <<10, <<"A","u","s","t","r","a","l","i","a">>>>,
   <<11, <<"P","e","r","u">>>>,
   <<12, <<"D","e","n","m","a","r","k">>>>,
   <<13, <<"A","r","g","e","n","t","i","n","a">>>>,
   <<14, <<"I","c","e","l","a","n","d">>>>,
   <<15, <<"C","r","o","a","t","i","a">>>>,
   <<16, <<"N","i","g","e","r","i","a">>>>,
   <<17, <<"B","r","a","z","i","l">>>>,
   <<18, <<"S","w","i","t","z","e","r","l","a","n","d">>>>,
   <<19, <<"C","o","s","t","a"," ","R","i","c","a">>>>,
   <<20, <<"S","e","r","b","i","a">>>>,
   <<21, <<"G","e","r","m","a","n","y">>>>,
   <<22, <<"M","e","x","i","c","o">>>>,
   <<23, <<"S","w","e","d","e","n">>>>,
   <<24, <<"S","o","u","t","h"," ","K","o","r","e","a">>>>,
   <<25, <<"B","e","l","g","i","u","m">>>>,
   <<26, <<"P","a","n","a","m","a">>>>,
   <<27, <<"T","u","n","i","s","i","a">>>>,
   <<28, <<"E","n","g","l","a","n","d">>>>,
   <<29, <<"P","o","l","a","n","d">>>>,
   <<30, <<"S","e","n","e","g","a","l">>>>,
   <<31, <<"C","o","l","o","m","b","i","a">>>>,
   <<32, <<"J","a","p","a","n">>>>}

\* a Python dict: a function of its keys
PyDict(d) == <<"dict", d>>

\* d.get(k, default) and d[k] = v on a dict held as a function of its keys
get(d, k, default) == IF k \in DOMAIN d THEN d[k] ELSE default
set_item(d, k, v) == [x \in DOMAIN d \cup {k} |-> IF x = k THEN v ELSE d[x]]

s_group_type == <<"g","r","o","u","p">>
s_knockout == <<"k","n","o","c","k","o","u","t">>

\* the tree after the two extraction loops: every match entry of a group
\* has got the keys type and group, every match entry of a knockout stage
\* the keys type and round_raw; a section is a list of <<key, value>> in the
\* order of the dict
mark_section(section, type, key) ==
  [s \in 1..Len(section) |->
     <<section[s][1],
       IF "matches" \in DOMAIN section[s][2]
       THEN [section[s][2] EXCEPT !.matches =
               [e \in 1..Len(@) |->
                  set_item(set_item(@[e], "type", PyStr(type)), key, PyStr(section[s][1]))]]
       ELSE section[s][2]>>]
mark_entries(json) ==
  [k \in DOMAIN json |->
     IF k = "groups" THEN mark_section(json[k], s_group_type, "group")
     ELSE IF k = "knockout" THEN mark_section(json[k], s_knockout, "round_raw")
     ELSE json[k]]

\* matches_list: the entries of the groups, then those of the knockout stages
RECURSIVE section_matches(_)
section_matches(section) ==
  IF section = <<>> THEN <<>>
  ELSE get(section[1][2], "matches", <<>>) \o section_matches(Tail(section))
matches_list(marked) ==
  section_matches(get(marked, "groups", <<>>)) \o section_matches(get(marked, "knockout", <<>>))

\* teams_mapping_2018.get(id, f"Unknown_{id}")
team_2018(id) ==
  IF IsInt(id) /\ \E p \in TEAMS_MAPPING_2018 : p[1] = id[2]
  THEN PyStr((CHOOSE p \in TEAMS_MAPPING_2018 : p[1] = id[2])[2])
  ELSE PyStr(s_Unknown \o <<"_">> \o str(id))

\* next((s['city'] for s in stadiums if s['id'] == s_id), "Unknown")
stadium_city(stadiums, s_id) ==
  LET hits == {j \in 1..Len(stadiums) : stadiums[j].id = s_id}
  IN IF hits = {} THEN PyStr(s_Unknown) ELSE stadiums[Min(hits)].city

\* the record final_list gets for a match entry
source4_record(m, stadiums) ==
  LET home_n == normalize_team(team_2018(get(m, "home_team", None)))
      away_n == normalize_team(team_2018(get(m, "away_team", None)))
      d_obj == IF truthy(get(m, "date", None))
               THEN to_datetime_iso(split_ch(m.date[2], "T")[1]) ELSE PyTs(20180701)
      s_id == get(m, "stadium", None)
  IN [home_team |-> home_n, away_team |-> away_n,
      home_result |-> get(m, "home_result", PyInt(0)),
      away_result |-> get(m, "away_result", PyInt(0)),
      result |-> compute_result(get(m, "home_result", PyInt(0)), get(m, "away_result", PyInt(0)),
                                home_n, away_n),
      date |-> d_obj,
      round |-> IF m.type = PyStr(s_knockout)
                THEN normalize_round(get(m, "round_raw", PyStr(s_Group_Stage)))
                ELSE PyStr(s_Group_Stage),
      city |-> normalize_city(stadium_city(stadiums, s_id)),
      edition |-> PyStr(<<"2","0","1","8">>),
      source |-> PyStr(<<"j","s","o","n","_","2","0","1","8">>),
      stadium_id |-> s_id]

\* transform_source4: the table returned and the tree as the call leaves it
transform_source4(json) ==
  IF json = None \/ DOMAIN json[2] = {} THEN [df |-> PyDf(<<>>), json_data |-> json]
  ELSE LET marked == mark_entries(json[2])
           list == matches_list(marked)
       IN [df |-> PyDf([i \in 1..Len(list) |->
                          source4_record(list[i], get(json[2], "stadiums", <<>>))]),
           json_data |-> PyDict(marked)]

MaxStages == 2

\* match entries: one with every key, one with the team ids only and an id
\* the 2018 mapping does not have
Entries2018 ==
  {[home_team |-> PyInt(9), away_team |-> PyInt(15), home_result |-> PyInt(4),
    away_result |-> PyInt(2), date |-> PyStr(<<"2","0","1","8","-","0","7","-","1","5","T","1","8",":","0","0",":","0","0","+","0","3",":","0","0">>),
    stadium |-> PyInt(1)],
   [home_team |-> PyInt(15), away_team |-> PyInt(99)]}

StageKeys == {<<"r","o","u","n","d","_","1","6">>, <<"r","o","u","n","d","_","8">>, <<"r","o","u","n","d","_","4">>, <<"r","o","u","n","d","_","2","_","l","o","s","e","r">>, <<"r","o","u","n","d","_","2">>}

\* trees with at most one group and up to MaxStages knockout stages of one
\* match each, and the empty tree
JsonTrees ==
  {PyDict([groups |-> groups, knockout |-> knockout,
           stadiums |-> <<[id |-> PyInt(1), city |-> PyStr(<<"M","o","s","c","o","w">>)]>>]) :
     groups \in {<<>>} \cup {<<<<<<"a">>, [matches |-> <<e>>]>>>> : e \in Entries2018},
     knockout \in UNION {{[i \in 1..n |-> <<ks[i], [matches |-> <<es[i]>>]>>] :
                            ks \in {f \in [1..n -> StageKeys] :
                                      \A i, j \in 1..n : i # j => f[i] # f[j]},
                            es \in [1..n -> Entries2018]} : n \in 0..MaxStages}}
  \cup {PyDict(<<>>)}

InitSource4 ==
  /\ \E json \in JsonTrees \cup {None} : sources = <<json>>
  /\ dfs_list = <<>>
  /\ final_df = None
  /\ final_index = <<>>
  /\ NoResult /\ NoValidate /\ NoCities /\ NoDates /\ NoScore /\ NoTeam /\ NoLoad
  /\ pc = "extracted"

TransformSource4 ==
  /\ pc = "extracted"
  /\ dfs_list' = <<transform_source4(sources[1]).df>>
  /\ sources' = <<transform_source4(sources[1]).json_data>>
  /\ pc' = "transformed"
  /\ UNCHANGED <<final_df, final_index, result_vars, validate_vars, cities_vars,
                 dates_vars, score_vars, team_vars, load_vars>>

SpecSource4 == InitSource4 /\ [][TransformSource4]_vars

RoundTaxonomy ==
  {PyStr(<<"G","r","o","u","p"," ","S","t","a","g","e">>), PyStr(<<"R","o","u","n","d"," ","o","f"," ","1","6">>), PyStr(<<"Q","u","a","r","t","e","r","-","f","i","n","a","l","s">>), PyStr(<<"S","e","m","i","-","f","i","n","a","l","s">>), PyStr(<<"T","h","i","r","d"," ","P","l","a","c","e">>), PyStr(<<"F","i","n","a","l">>)}

\* C23: every record transform_source4 produces has a round of the taxonomy
\* Group Stage, Round of 16, Quarter-finals, Semi-finals, Third Place, Final
C23_RoundInTaxonomy ==
  pc = "transformed" =>
    \A i \in 1..Len(dfs_list[1][2]) : dfs_list[1][2][i].round \in RoundTaxonomy


\* C25: a call modifies no input it is given: after transform_source4 the
\* JSON tree, each match entry's keys and values included, is as before
C25_InputUnchanged ==
  [][sources' = sources]_vars


(***************************************************************************)
(* transform_source1                                                       *)
(***************************************************************************)
\* the column names of the universe whose lower case contains 'year'
YearColumns == {"year", "Year"}

\* df['year'] != 2014 on a cell: only a number equal to 2014 is equal to it
ne_2014(v) == ~(IsInt(v) /\ v[2] = 2014)

\* the record of a row that passed the filter; year_cols are the columns
\* whose name holds 'year'
source1_record(r, year_cols) ==
  LET home_team_n == normalize_team(r.team1)
      away_team_n == normalize_team(r.team2)
      scores == parse_score(r.score)
      hr == IF scores[1] = None THEN NaN ELSE scores[1]
      ar == IF scores[2] = None THEN NaN ELSE scores[2]
      ed == IF year_cols = {} THEN PyStr(s_Unknown)
            ELSE PyStr(str(to_numeric_fillna0_int(r[CHOOSE c \in year_cols : TRUE])))
  IN [home_team |-> home_team_n, away_team |-> away_team_n,
      home_result |-> hr, away_result |-> ar,
      result |-> compute_result(hr, ar, home_team_n, away_team_n),
      date |-> IF year_cols = {} \/ ed = PyStr(<<"0">>) THEN None
               ELSE PyTs(digits_val(ed[2]) * 10000 + 701),
      round |-> normalize_round(r.round),
      city |-> normalize_city(r.venue),
      edition |-> ed]

\* transform_source1: what the call may return. With no row left after the
\* filter, df_clean.apply(..., axis=1) gives a table, and whether a table
\* can be assigned to the column 'result' depends on the pandas release
transform_source1(df_raw) ==
  LET rows == df_rows(df_raw)
      cols == IF rows = <<>> THEN {} ELSE DOMAIN rows[1]
      kept == IF "year" \in cols THEN SelectSeq(rows, LAMBDA r : ne_2014(r.year)) ELSE rows
  IN IF kept = <<>> THEN {PyDf(<<>>), Raise("ValueError")}
     ELSE {PyDf([i \in 1..Len(kept) |-> source1_record(kept[i], cols \cap YearColumns)])}

MaxSource1Rows == 2

\* rows of the 1930-2010 source: the year a number or text, under a column
\* named year or Year
RawRows1(year_col) ==
  {[c \in {"team1", "team2", "score", "venue", "round", year_col} |->
      IF c = "team1" THEN PyStr(s_Brazil)
      ELSE IF c = "team2" THEN PyStr(s_France)
      ELSE IF c = "score" THEN sc
      ELSE IF c = "venue" THEN PyStr(s_Paris)
      ELSE IF c = "round" THEN PyStr(s_Final)
      ELSE y] :
     sc \in {PyStr(<<"2","-","1">>), PyStr(<<"x">>)},
     y \in {PyInt(2010), PyInt(2014), PyStr(<<"2","0","1","0">>), PyStr(s_2014)}}

InitSource1 ==
  /\ \E year_col \in YearColumns : \E n \in 1..MaxSource1Rows :
       \E rows \in [1..n -> RawRows1(year_col)] : sources = <<PyDf(rows)>>
  /\ dfs_list = <<>>
  /\ final_df = None
  /\ final_index = <<>>
  /\ NoResult /\ NoValidate /\ NoCities /\ NoDates /\ NoScore /\ NoTeam /\ NoLoad
  /\ pc = "extracted"

TransformSource1 ==
  /\ pc = "extracted"
  /\ \E out \in transform_source1(sources[1]) : dfs_list' = <<out>>
  /\ pc' = "transformed"
  /\ UNCHANGED <<sources, final_df, final_index, result_vars, validate_vars, cities_vars,
                 dates_vars, score_vars, team_vars, load_vars>>

SpecSource1 == InitSource1 /\ [][TransformSource1]_vars

\* C24: the table transform_source1 returns has no row of edition 2014,
\* whatever the case of the name of the year column and whether the year is
\* a number or text; every row has the decimal str of a year as edition and
\* the first of July of that year as date
C24_No2014Row ==
  (pc = "transformed" /\ IsDf(dfs_list[1])) =>
    \A i \in 1..Len(dfs_list[1][2]) :
      /\ dfs_list[1][2][i].edition # PyStr(s_2014)
      /\ IsStr(dfs_list[1][2][i].edition) /\ isdigit(dfs_list[1][2][i].edition[2])
      /\ dfs_list[1][2][i].date
           = PyTs(digits_val(dfs_list[1][2][i].edition[2]) * 10000 + 701)


(***************************************************************************)
(* enrich_with_historical_dates on what transform_source1 returns          *)
(***************************************************************************)
\* rows of the 1930-2010 source in a table that has no year column
RawRowsNoYear ==
  {[c \in DOMAIN r \ YearColumns |-> r[c]] : r \in RawRows1("year")}

\* the tables with rows that transform_source1 returns for the source
\* tables of up to MaxSource1Rows rows, with and without a year column
Source1Tables ==
  {out \in UNION {transform_source1(PyDf(rows)) :
                    rows \in UNION {[1..n -> RawRows1("year")] \cup [1..n -> RawRows1("Year")]
                                      \cup [1..n -> RawRowsNoYear] : n \in 1..MaxSource1Rows}} :
     IsDf(out) /\ ~df_empty(out)}

InitDatesSource1 ==
  /\ df_matches \in Source1Tables
  /\ \/ df_dates = None
     \/ \E n \in 0..MaxScopeDates : \E rows \in [1..n -> ScopeDateRows] : df_dates = PyDf(rows)
  /\ df_enriched = None
  /\ NoPipeline /\ NoResult /\ NoValidate /\ NoCities /\ NoScore /\ NoTeam /\ NoLoad
  /\ pc = "call"

SpecDatesSource1 == InitDatesSource1 /\ [][EnrichDates]_vars

\* C29: enrich_with_historical_dates raises nothing on a table that
\* transform_source1 returned, and a match whose edition is "Unknown" comes
\* back unmodified
C29_NeverRaisesOnSource1 ==
  pc = "returned" =>
    /\ IsDf(df_enriched)
    /\ \A i \in 1..Len(df_matches[2]) :
         df_matches[2][i].edition = PyStr(s_Unknown) => df_enriched[2][i] = df_matches[2][i]


(***************************************************************************)
(* loading what consolidate returns                                        *)
(***************************************************************************)
table_cols == {"id_match", "home_team", "away_team", "home_result", "away_result", "result",
               "date", "round", "city", "edition"}

\* C30: a table consolidate returns has exactly the ten columns of
\* world_cup_matches and no missing value in a NOT NULL column, and
\* load_data into the empty table returns without an error
C30_ConsolidatedTableLoads ==
  Done =>
    /\ \A k \in 1..Len(FinalRows) :
         /\ DOMAIN FinalRows[k] = table_cols
         /\ \A c \in not_null_cols : ~isna(FinalRows[k][c])
    /\ load_data(Connection, {}, final_df).outcome = None

====
